---- MODULE Spec2Model ----
(***************************************************************************)
(* Model of the agent execution core of agentflow: the bounded-concurrency *)
(* subagent Pool (internal/subagent/pool.go) together with the parts of    *)
(* Agent (internal/agent) and Provider.Complete it drives.                 *)
(*                                                                         *)
(* Strings are modelled as sequences of string tokens, so that "" is <<>>  *)
(* and fmt.Sprintf is concatenation.  A Go pointer is modelled as a        *)
(* sequence of length 0 (nil) or 1 (the pointee).                          *)
(***************************************************************************)
EXTENDS Integers, Sequences, FiniteSets, TLC

\* ---------------------------------------------------------------- bounds
\* number of Spawn invocations (goroutines) over the life of the pool
MaxCalls == 2
\* largest task slice handed to SpawnBatch
MaxBatch == 2

\* ------------------------------------------------------ program constants
DefaultMaxAgents == 5

Calls == 1..MaxCalls

Nil == <<>>
Ptr(v) == <<v>>
IsNil(p) == p = <<>>
Deref(p) == p[1]

\* ------------------------------------------------------------ input data
TaskIDs == {"a", "b"}

\* subagent.Task (Metadata is handed to the agent and never read by Spawn)
Tasks ==
    { [ID |-> "a", Description |-> <<"d1">>, SkillName |-> <<>>,         Message |-> <<"m1">>],
      [ID |-> "b", Description |-> <<"d2">>, SkillName |-> <<"review">>, Message |-> <<"m2">>] }

\* contexts: a direct or asynchronous Spawn invocation is given a context of
\* its own (named by the invocation); the goroutines of a batch share one
BatchCtx == 0

\* the tables a bound skill loader may hold: name -> content
NoSkills == [n \in {} |-> <<>>]
ReviewSkill == [n \in {<<"review">>} |-> <<"skill body">>]

\* the PoolConfig values tried: MaxAgents unset with no loader and no prompt,
\* and one and two slots with a loader
PoolConfigs ==
    { [MaxAgents |-> 0, SystemPrompt |-> <<>>,           Skills |-> Nil],
      [MaxAgents |-> 1, SystemPrompt |-> <<"be brief">>, Skills |-> Ptr(NoSkills)],
      [MaxAgents |-> 2, SystemPrompt |-> <<>>,           Skills |-> Ptr(ReviewSkill)] }

\* the same, and a negative MaxAgents
NewPoolConfigs ==
    PoolConfigs \cup {[MaxAgents |-> -1, SystemPrompt |-> <<>>, Skills |-> Nil]}

\* the pool's bound model
PoolModel == <<"test-model">>

\* the deterministic backend's reply to a request
BackendReply == [Content |-> <<"ok">>, Model |-> PoolModel, FinishReason |-> <<"stop">>]

\* ---------------------------------------------------------------- errors
ErrNil == <<>>
ErrExhausted == <<"pool exhausted: max %d agents">>
ErrBackend == <<"backend error">>
ErrCanceled == <<"send request: ", "context canceled">>
ErrSkillNotFound(name) == <<"skill not found: ">> \o name
ErrCompletion(e) == <<"completion: ">> \o e

VARIABLES
    config,         \* the PoolConfig NewPool was given
    maxAgents,      \* Pool.maxAgents
    activeCount,    \* Pool.activeCount
    results,        \* Pool.results: task id -> Result
    systemPrompt,   \* Pool.systemPrompt
    skills,         \* Pool.skills: Nil, or Ptr of the loader's table
    cancelled,      \* the contexts that are done
    pc,             \* position of each Spawn invocation
    admitted,       \* the invocations that passed the admission test
    call,           \* arguments of each Spawn invocation and who made it
    messages,       \* Agent.messages of the agent built for the invocation
    requests,       \* CompletionRequests the invocation sent to the provider
    completed,      \* what Provider.Complete returned to Agent.Run
    resp, err,      \* Spawn's locals resp and err
    result,         \* Spawn's local result (a *Result)
    ret,            \* what Spawn returned to its caller
    ch,             \* SpawnAsync: the buffered channel's content
    chClosed,       \* SpawnAsync: whether the channel is closed
    batchPc,        \* SpawnBatch: position of the calling goroutine
    batchTasks,     \* SpawnBatch: the tasks argument
    batchCalls,     \* SpawnBatch: the Spawn invocation of fan-out goroutine i
    batchResults,   \* SpawnBatch: the results slice
    wg,             \* SpawnBatch: the wait group counter
    batchRet,       \* SpawnBatch: the returned slice
    agent,          \* a long-lived Agent: its fields
    clone,          \* the Agent that Clone returned: Nil, or Ptr of its fields
    heap,           \* the metadata maps, by address (a map is shared by reference)
    turn,           \* the caller's last operation on the agent and what it returned
    wire,           \* the backend's streaming HTTP response, as far as it is unread
    producer,       \* the provider's Stream goroutine
    forwarder,      \* the goroutine of Agent.Stream
    received,       \* the chunks the consumer has received from a stream's channel
    backend,        \* the backend a provider talks to: what it answers to a request
    registry        \* Registry.providers: the names under which a provider is registered

poolVars == <<maxAgents, activeCount, results, systemPrompt, skills>>
callVars == <<pc, call, admitted, messages, requests, completed, resp, err, result, ret>>
asyncVars == <<ch, chClosed>>
batchVars == <<batchPc, batchTasks, batchCalls, batchResults, wg, batchRet>>
agentVars == <<agent, clone, heap, turn, wire, producer, forwarder, received, backend, registry>>
\* what no operation of the pool touches
otherVars == <<config, agentVars>>
vars == <<poolVars, cancelled, callVars, asyncVars, batchVars, otherVars>>

\* an empty map[string]*Result
EmptyMap == [k \in {} |-> Nil]

NoCall == [task |-> [ID |-> "", Description |-> <<>>, SkillName |-> <<>>, Message |-> <<>>],
           ctx |-> BatchCtx, kind |-> "none", idx |-> 0]
NoReturn == [result |-> Nil, err |-> ErrNil]
\* Provider.Complete has not returned
NoReply == [resp |-> Nil, err |-> ErrNil]

\* ------------------------------------------------------------------ Pool
\* a NewPool that takes only an unset maximum for the default
NewPoolMaxAgentsUnsetOnly(cfgMaxAgents) ==
    IF cfgMaxAgents = 0 THEN DefaultMaxAgents ELSE cfgMaxAgents

\* NewPool: the configured maximum, defaulted when unset or non-positive
NewPoolMaxAgents(cfgMaxAgents) ==
    IF cfgMaxAgents <= 0 THEN DefaultMaxAgents ELSE cfgMaxAgents

\* NewPool(cfg): the pool as constructed
NewPool(cfg) ==
    /\ config = cfg
    /\ maxAgents = NewPoolMaxAgents(cfg.MaxAgents)
    /\ systemPrompt = cfg.SystemPrompt
    /\ skills = cfg.Skills
    /\ activeCount = 0
    /\ results = EmptyMap

\* no Spawn invocation has been made
NoCalls ==
    /\ cancelled = {}
    /\ pc = [c \in Calls |-> "idle"]
    /\ call = [c \in Calls |-> NoCall]
    /\ admitted = {}
    /\ messages = [c \in Calls |-> <<>>]
    /\ requests = [c \in Calls |-> <<>>]
    /\ completed = [c \in Calls |-> NoReply]
    /\ resp = [c \in Calls |-> Nil]
    /\ err = [c \in Calls |-> ErrNil]
    /\ result = [c \in Calls |-> Nil]
    /\ ret = [c \in Calls |-> NoReturn]
    /\ ch = [c \in Calls |-> <<>>]
    /\ chClosed = [c \in Calls |-> FALSE]
    /\ batchPc = "idle"
    /\ batchTasks = <<>>
    /\ batchCalls = <<>>
    /\ batchResults = <<>>
    /\ wg = 0
    /\ batchRet = <<>>

\* the zero Agent: no long-lived agent has been made
ZeroAgent == [id |-> <<>>, provider |-> <<>>, model |-> <<>>, skills |-> Nil,
              systemPrompt |-> <<>>,
              messages |-> <<>>, metadata |-> 0]

\* types.StreamChunk
Chunk(content, done, error) == [Content |-> content, Done |-> done, Error |-> error]
NoChunk == Chunk(<<>>, FALSE, ErrNil)

NoTurn == [op |-> "none", target |-> "agent", skill |-> <<>>, message |-> <<>>, before |-> <<>>,
           req |-> Nil, reply |-> NoReply, resp |-> Nil, err |-> ErrNil]
NoWire == [family |-> "none", status |-> 0, lines |-> <<>>, end |-> "eof"]
NoProducer == [pc |-> "none", chunk |-> NoChunk, exit |-> FALSE, sent |-> <<>>]
NoForwarder == [pc |-> "none", chunk |-> NoChunk, fullContent |-> <<>>]

NoUsage == [prompt |-> 0, completion |-> 0, total |-> 0]
NoBackend ==
    [family |-> "none", status |-> 0, pieces |-> <<>>, style |-> "none", usage |-> NoUsage]

\* NewRegistry: no provider is registered
NewRegistry == {}

\* no stream is open
NoStream ==
    /\ wire = NoWire
    /\ producer = NoProducer
    /\ forwarder = NoForwarder
    /\ received = <<>>

NoAgent ==
    /\ agent = ZeroAgent
    /\ clone = Nil
    /\ heap = <<>>
    /\ turn = NoTurn
    /\ NoStream
    /\ registry = NewRegistry
    /\ backend = NoBackend

Init ==
    /\ \E cfg \in PoolConfigs : NewPool(cfg)
    /\ NoCalls
    /\ NoAgent

\* The Spawn invocations are numbered in the order their goroutines are made.
IdleCalls == {c \in Calls : pc[c] = "idle"}
NextCall == CHOOSE c \in IdleCalls : \A d \in IdleCalls : c <= d

\* ----------------------------------------------------------------- Agent
\* a New that seeds no system message
AgentNewNoSystem(prompt) == <<>>

\* agent.New: the history is seeded with the system prompt when there is one
AgentNew(prompt) ==
    IF prompt # <<>> THEN <<[Role |-> "system", Content |-> prompt]>> ELSE <<>>

\* an AddMessage that puts the message in front
AddMessageFront(msgs, role, content) == <<[Role |-> role, Content |-> content]>> \o msgs

\* Agent.AddMessage
AddMessage(msgs, role, content) == Append(msgs, [Role |-> role, Content |-> content])

\* a Run that sends the new user message alone
RunRequestLastOnly(msgs, model, message) ==
    [Model |-> model, Messages |-> <<[Role |-> "user", Content |-> message]>>,
     Stream |-> FALSE]

\* Agent.Run up to the provider call: the user message is appended and the
\* request carries the whole history
RunRequest(msgs, model, message) ==
    [Model |-> model, Messages |-> AddMessage(msgs, "user", message), Stream |-> FALSE]

\* a Run that swallows the provider's error
RunReturnSwallow(out) == [resp |-> out.resp, err |-> ErrNil]

\* Agent.Run after the provider call: what Run returns for what Complete returned
RunReturn(out) ==
    IF out.err # ErrNil
    THEN [resp |-> Nil, err |-> ErrCompletion(out.err)]
    ELSE [resp |-> out.resp, err |-> ErrNil]

\* a Run that forgets the assistant's reply
RunHistoryNoAssistant(msgs, out) == msgs

\* a Run that appends an assistant message whatever the provider returned
RunHistoryAssistantAlways(msgs, out) ==
    AddMessage(msgs, "assistant", IF IsNil(out.resp) THEN <<>> ELSE Deref(out.resp).Content)

\* Agent.Run after the provider call: the history
RunHistory(msgs, out) ==
    IF out.err # ErrNil THEN msgs ELSE AddMessage(msgs, "assistant", Deref(out.resp).Content)

\* Agent.RunWithSkill: the message handed to Run, or the error returned
\* without calling Run
RunWithSkill(loader, skillName, message) ==
    IF IsNil(loader)
    THEN [run |-> TRUE, message |-> message, err |-> ErrNil]
    ELSE IF skillName \notin DOMAIN Deref(loader)
         THEN [run |-> FALSE, message |-> <<>>, err |-> ErrSkillNotFound(skillName)]
         ELSE [run |-> TRUE,
               message |-> <<"# Skill: ">> \o skillName \o <<"\n\n">>
                           \o Deref(loader)[skillName] \o <<"\n\n---\n\n">> \o message,
               err |-> ErrNil]

\* ------------------------------------------------------ Provider.Complete
CtxDone(x) == x \in cancelled

\* what Complete can return: with a done context the HTTP call is aborted;
\* otherwise the backend answers or fails
CompleteOutcomes(done) ==
    IF done
    THEN {[resp |-> Nil, err |-> ErrCanceled]}
    ELSE {[resp |-> Ptr(BackendReply), err |-> ErrNil], [resp |-> Nil, err |-> ErrBackend]}

\* ------------------------------------------------------------ Pool.Spawn
\* a Spawn that gives the agent no system prompt when the pool has none
SpawnSystemPromptNoDefault(poolPrompt, t) == poolPrompt

\* Spawn, lines 90-93: the system prompt of the fresh agent
SpawnSystemPrompt(poolPrompt, t) ==
    IF poolPrompt = <<>>
    THEN <<"You are a focused subagent executing task: ">> \o t.Description
    ELSE poolPrompt

\* Spawn, lines 109-113: which entry point of the agent runs the task
SpawnPlan(loader, t) ==
    IF t.SkillName # <<>>
    THEN RunWithSkill(loader, t.SkillName, t.Message)
    ELSE [run |-> TRUE, message |-> t.Message, err |-> ErrNil]

\* an off-by-one admission test
ExhaustedOffByOne(active, max) == active > max

\* Spawn, lines 73-79: the admission test, made under the pool mutex
Exhausted(active, max) == active >= max

\* a rejection that hands back a Result carrying the error
SpawnRejectedWithResult ==
    [result |-> Ptr([TaskID |-> "", AgentID |-> <<>>, Response |-> Nil,
                     Error |-> ErrExhausted, addr |-> 0]),
     err |-> ErrExhausted]

\* Spawn, line 76: what a rejected call returns
SpawnRejected == [result |-> Nil, err |-> ErrExhausted]

\* Spawn, lines 73-113 up to the provider call, for invocation c of task t.
\* Under the mutex the call is rejected or takes a slot; an admitted call then
\* builds a fresh agent and starts Run / RunWithSkill, which touches nothing
\* shared until the provider is called.
SpawnEnter(c, t) ==
    IF Exhausted(activeCount, maxAgents)
    THEN /\ ret' = [ret EXCEPT ![c] = SpawnRejected]
         /\ pc' = [pc EXCEPT ![c] = "returned"]
         /\ UNCHANGED <<activeCount, admitted, messages, requests, resp, err>>
    ELSE /\ activeCount' = activeCount + 1
         /\ admitted' = admitted \cup {c}
         /\ UNCHANGED ret
         /\ LET a == AgentNew(SpawnSystemPrompt(systemPrompt, t))
                plan == SpawnPlan(skills, t)
            IN IF plan.run
               THEN LET req == RunRequest(a, PoolModel, plan.message)
                    IN /\ messages' = [messages EXCEPT ![c] = req.Messages]
                       /\ requests' = [requests EXCEPT ![c] = Append(@, req)]
                       /\ pc' = [pc EXCEPT ![c] = "inflight"]
                       /\ UNCHANGED <<resp, err>>
               ELSE /\ messages' = [messages EXCEPT ![c] = a]
                    /\ resp' = [resp EXCEPT ![c] = Nil]
                    /\ err' = [err EXCEPT ![c] = plan.err]
                    /\ pc' = [pc EXCEPT ![c] = "ran"]
                    /\ UNCHANGED requests

\* a caller invokes Spawn(ctx, t) directly, with a context of its own
CallSpawn(t) ==
    /\ IdleCalls # {}
    /\ call' = [call EXCEPT ![NextCall] = [task |-> t, ctx |-> NextCall, kind |-> "sync", idx |-> 0]]
    /\ SpawnEnter(NextCall, t)
    /\ UNCHANGED <<maxAgents, results, systemPrompt, skills, cancelled, completed,
                   result, asyncVars, batchVars>>
    /\ UNCHANGED otherVars

\* SpawnAsync(ctx, t): the channel is made and the goroutine started; the
\* goroutine enters Spawn
SpawnAsync(t) ==
    /\ IdleCalls # {}
    /\ call' = [call EXCEPT ![NextCall] = [task |-> t, ctx |-> NextCall, kind |-> "async", idx |-> 0]]
    /\ ch' = [ch EXCEPT ![NextCall] = <<>>]
    /\ chClosed' = [chClosed EXCEPT ![NextCall] = FALSE]
    /\ SpawnEnter(NextCall, t)
    /\ UNCHANGED <<maxAgents, results, systemPrompt, skills, cancelled, completed,
                   result, batchVars>>
    /\ UNCHANGED otherVars

\* a fan-out goroutine of SpawnBatch enters Spawn
BatchSpawn(c) ==
    /\ pc[c] = "start"
    /\ SpawnEnter(c, call[c].task)
    /\ UNCHANGED <<maxAgents, results, systemPrompt, skills, cancelled, call, completed,
                   result, asyncVars, batchVars>>
    /\ UNCHANGED otherVars

\* a Run that sends the request once more when the provider failed
ProviderCompleteRetry(c) ==
    /\ pc[c] = "inflight"
    /\ \E out \in CompleteOutcomes(CtxDone(call[c].ctx)) :
          IF out.err # ErrNil /\ Len(requests[c]) < 2
          THEN /\ requests' = [requests EXCEPT ![c] = Append(@, @[1])]
               /\ UNCHANGED <<completed, messages, resp, err, pc>>
          ELSE /\ completed' = [completed EXCEPT ![c] = out]
               /\ messages' = [messages EXCEPT ![c] = RunHistory(@, out)]
               /\ resp' = [resp EXCEPT ![c] = RunReturn(out).resp]
               /\ err' = [err EXCEPT ![c] = RunReturn(out).err]
               /\ pc' = [pc EXCEPT ![c] = "ran"]
               /\ UNCHANGED requests
    /\ UNCHANGED <<poolVars, cancelled, call, admitted, result, ret, asyncVars, batchVars>>
    /\ UNCHANGED otherVars

\* Provider.Complete returns and Agent.Run finishes
ProviderComplete(c) ==
    /\ pc[c] = "inflight"
    /\ \E out \in CompleteOutcomes(CtxDone(call[c].ctx)) :
          /\ completed' = [completed EXCEPT ![c] = out]
          /\ messages' = [messages EXCEPT ![c] = RunHistory(@, out)]
          /\ resp' = [resp EXCEPT ![c] = RunReturn(out).resp]
          /\ err' = [err EXCEPT ![c] = RunReturn(out).err]
    /\ pc' = [pc EXCEPT ![c] = "ran"]
    /\ UNCHANGED <<poolVars, cancelled, call, admitted, requests, result, ret, asyncVars, batchVars>>
    /\ UNCHANGED otherVars

\* Spawn, lines 115-122: the Result built for the task.  addr stands for the
\* identity of the allocated Result; AgentID's time suffix and the two time
\* fields are not modelled.
NewResult(c, t, r, e) ==
    [TaskID |-> t.ID, AgentID |-> <<"subagent-", t.ID>>, Response |-> r, Error |-> e, addr |-> c]

\* a store that keeps the entry a key already has
MapStoreKeepFirst(m, k, v) ==
    [x \in DOMAIN m \cup {k} |-> IF x \in DOMAIN m THEN m[x] ELSE v]

\* p.results[task.ID] = result
MapStore(m, k, v) == [x \in DOMAIN m \cup {k} |-> IF x = k THEN v ELSE m[x]]

\* a Spawn that stores the Result of a successful task only
SpawnStoreOnlySuccess(c) ==
    /\ pc[c] = "ran"
    /\ LET r == NewResult(c, call[c].task, resp[c], err[c])
       IN /\ result' = [result EXCEPT ![c] = Ptr(r)]
          /\ results' = IF err[c] = ErrNil
                        THEN MapStore(results, call[c].task.ID, r)
                        ELSE results
    /\ pc' = [pc EXCEPT ![c] = "stored"]
    /\ UNCHANGED <<maxAgents, activeCount, systemPrompt, skills, cancelled, call, messages,
                   requests, admitted, completed, resp, err, ret, asyncVars, batchVars>>
    /\ UNCHANGED otherVars

\* a Spawn that builds its Result and does not put it in the map
SpawnStoreUnrecorded(c) ==
    /\ pc[c] = "ran"
    /\ result' = [result EXCEPT ![c] = Ptr(NewResult(c, call[c].task, resp[c], err[c]))]
    /\ pc' = [pc EXCEPT ![c] = "stored"]
    /\ UNCHANGED <<poolVars, cancelled, call, messages,
                   requests, admitted, completed, resp, err, ret, asyncVars, batchVars>>
    /\ UNCHANGED otherVars

\* Spawn, lines 115-127: the Result is built and stored under the pool mutex
SpawnStore(c) ==
    /\ pc[c] = "ran"
    /\ LET r == NewResult(c, call[c].task, resp[c], err[c])
       IN /\ result' = [result EXCEPT ![c] = Ptr(r)]
          /\ results' = MapStore(results, call[c].task.ID, r)
    /\ pc' = [pc EXCEPT ![c] = "stored"]
    /\ UNCHANGED <<maxAgents, activeCount, systemPrompt, skills, cancelled, call, messages,
                   requests, admitted, completed, resp, err, ret, asyncVars, batchVars>>
    /\ UNCHANGED otherVars

\* a release that forgets the decrement
ReleaseNone(active) == active

\* the deferred function of lines 81-85
Release(active) == active - 1

\* a Spawn that decrements inline and leaves early, without the decrement,
\* when its context is done
SpawnReturnLeakOnCancel(c) ==
    /\ pc[c] = "stored"
    /\ activeCount' = IF CtxDone(call[c].ctx) THEN activeCount ELSE Release(activeCount)
    /\ ret' = [ret EXCEPT ![c] = [result |-> result[c], err |-> err[c]]]
    /\ pc' = [pc EXCEPT ![c] = "returned"]
    /\ UNCHANGED <<maxAgents, results, systemPrompt, skills, cancelled, call, messages,
                   requests, admitted, completed, resp, err, result, asyncVars, batchVars>>
    /\ UNCHANGED otherVars

\* Spawn, line 129 and the deferred decrement: Spawn returns (result, err)
SpawnReturn(c) ==
    /\ pc[c] = "stored"
    /\ activeCount' = Release(activeCount)
    /\ ret' = [ret EXCEPT ![c] = [result |-> result[c], err |-> err[c]]]
    /\ pc' = [pc EXCEPT ![c] = "returned"]
    /\ UNCHANGED <<maxAgents, results, systemPrompt, skills, cancelled, call, messages,
                   requests, admitted, completed, resp, err, result, asyncVars, batchVars>>
    /\ UNCHANGED otherVars

\* ------------------------------------------------------- Pool.SpawnAsync
\* the goroutine of SpawnAsync: ch <- result
AsyncSend(c) ==
    /\ pc[c] = "returned"
    /\ call[c].kind = "async"
    /\ Len(ch[c]) < 1
    /\ ch' = [ch EXCEPT ![c] = Append(@, ret[c].result)]
    /\ pc' = [pc EXCEPT ![c] = "sent"]
    /\ UNCHANGED <<poolVars, cancelled, call, messages, requests, admitted, completed, resp, err,
                   result, ret, chClosed, batchVars>>
    /\ UNCHANGED otherVars

\* the goroutine of SpawnAsync: close(ch)
AsyncClose(c) ==
    /\ pc[c] = "sent"
    /\ chClosed' = [chClosed EXCEPT ![c] = TRUE]
    /\ pc' = [pc EXCEPT ![c] = "closed"]
    /\ UNCHANGED <<poolVars, cancelled, call, messages, requests, admitted, completed, resp, err,
                   result, ret, ch, batchVars>>
    /\ UNCHANGED otherVars

\* ------------------------------------------------------- Pool.SpawnBatch
\* the non-empty sequences over S of length up to n
SeqsUpTo(S, n) == UNION {[1..k -> S] : k \in 1..n}

\* SpawnBatch, lines 145-155: the slice is made and one goroutine per task
\* is started; the caller then blocks in wg.Wait()
SpawnBatch(ts) ==
    /\ batchPc = "idle"
    /\ Cardinality(IdleCalls) >= Len(ts)
    /\ LET first == IF IdleCalls = {} THEN MaxCalls + 1 ELSE NextCall
           cs == [i \in 1..Len(ts) |-> first + i - 1]
       IN /\ batchCalls' = cs
          /\ pc' = [c \in Calls |-> IF \E i \in 1..Len(ts) : cs[i] = c THEN "start" ELSE pc[c]]
          /\ call' = [c \in Calls |->
                        IF \E i \in 1..Len(ts) : cs[i] = c
                        THEN [task |-> ts[c - first + 1], ctx |-> BatchCtx, kind |-> "batch",
                              idx |-> c - first + 1]
                        ELSE call[c]]
    /\ batchTasks' = ts
    /\ batchResults' = [i \in 1..Len(ts) |-> Nil]
    /\ wg' = Len(ts)
    /\ batchPc' = "waiting"
    /\ UNCHANGED <<poolVars, cancelled, messages, requests, admitted, completed, resp, err,
                   result, ret, asyncVars, batchRet>>
    /\ UNCHANGED otherVars

\* a fan-out goroutine that gives the whole batch up when its own task failed
BatchCollectAbortOnError(c) ==
    /\ pc[c] = "returned"
    /\ call[c].kind = "batch"
    /\ batchResults' = IF ret[c].err # ErrNil
                       THEN [i \in 1..Len(batchResults) |-> Nil]
                       ELSE [batchResults EXCEPT ![call[c].idx] = ret[c].result]
    /\ wg' = wg - 1
    /\ pc' = [pc EXCEPT ![c] = "joined"]
    /\ UNCHANGED <<poolVars, cancelled, call, messages, requests, admitted, completed, resp, err,
                   result, ret, asyncVars, batchPc, batchTasks, batchCalls, batchRet>>
    /\ UNCHANGED otherVars

\* a fan-out goroutine after its Spawn returned: results[idx] = result, wg.Done()
BatchCollect(c) ==
    /\ pc[c] = "returned"
    /\ call[c].kind = "batch"
    /\ batchResults' = [batchResults EXCEPT ![call[c].idx] = ret[c].result]
    /\ wg' = wg - 1
    /\ pc' = [pc EXCEPT ![c] = "joined"]
    /\ UNCHANGED <<poolVars, cancelled, call, messages, requests, admitted, completed, resp, err,
                   result, ret, asyncVars, batchPc, batchTasks, batchCalls, batchRet>>
    /\ UNCHANGED otherVars

\* a SpawnBatch that returns without waiting for its goroutines
SpawnBatchReturnEarly ==
    /\ batchPc = "waiting"
    /\ batchRet' = batchResults
    /\ batchPc' = "returned"
    /\ UNCHANGED <<poolVars, cancelled, callVars, asyncVars, batchTasks, batchCalls,
                   batchResults, wg>>
    /\ UNCHANGED otherVars

\* SpawnBatch, lines 157-158: wg.Wait() is over and the slice is returned
SpawnBatchReturn ==
    /\ batchPc = "waiting"
    /\ wg = 0
    /\ batchRet' = batchResults
    /\ batchPc' = "returned"
    /\ UNCHANGED <<poolVars, cancelled, callVars, asyncVars, batchTasks, batchCalls,
                   batchResults, wg>>
    /\ UNCHANGED otherVars

\* ---------------------------------------------- reads and maintenance
\* Pool.GetResult
GetResult(taskID) ==
    IF taskID \in DOMAIN results
    THEN [result |-> Ptr(results[taskID]), ok |-> TRUE]
    ELSE [result |-> Nil, ok |-> FALSE]

\* Pool.ActiveCount
ActiveCount == activeCount

\* Pool.Stats
Stats == [Active |-> activeCount, MaxAgents |-> maxAgents,
          Results |-> Cardinality(DOMAIN results)]

\* a ClearResults that resets the active count as well
ClearResultsResetsActive ==
    /\ results' = EmptyMap
    /\ activeCount' = 0
    /\ UNCHANGED <<maxAgents, systemPrompt, skills, cancelled, callVars,
                   asyncVars, batchVars>>
    /\ UNCHANGED otherVars

\* Pool.ClearResults
ClearResults ==
    /\ results' = EmptyMap
    /\ UNCHANGED <<maxAgents, activeCount, systemPrompt, skills, cancelled, callVars,
                   asyncVars, batchVars>>
    /\ UNCHANGED otherVars

\* the owner of a context calls cancel() while the provider call of an
\* invocation that was given the context is in flight (Spawn itself never
\* looks at the context, so a cancel before the provider call is the same)
Cancel(x) ==
    /\ x \notin cancelled
    /\ \E c \in Calls : call[c].ctx = x /\ pc[c] = "inflight"
    /\ cancelled' = cancelled \cup {x}
    /\ UNCHANGED <<poolVars, callVars, asyncVars, batchVars>>
    /\ UNCHANGED otherVars

Next ==
    \/ \E t \in Tasks : CallSpawn(t)
    \/ \E t \in Tasks : SpawnAsync(t)
    \/ \E ts \in SeqsUpTo(Tasks, MaxBatch) : SpawnBatch(ts)
    \/ \E c \in Calls : BatchSpawn(c)
    \/ \E c \in Calls : ProviderComplete(c)
    \/ \E c \in Calls : SpawnStore(c)
    \/ \E c \in Calls : SpawnReturn(c)
    \/ \E c \in Calls : AsyncSend(c)
    \/ \E c \in Calls : AsyncClose(c)
    \/ \E c \in Calls : BatchCollect(c)
    \/ SpawnBatchReturn
    \/ ClearResults
    \/ \E x \in {BatchCtx} \cup Calls : Cancel(x)

Spec == Init /\ [][Next]_vars

\* the pool under direct and asynchronous submissions only
NextSpawn ==
    \/ \E t \in Tasks : CallSpawn(t)
    \/ \E t \in Tasks : SpawnAsync(t)
    \/ \E c \in Calls : ProviderComplete(c)
    \/ \E c \in Calls : SpawnStore(c)
    \/ \E c \in Calls : SpawnReturn(c)
    \/ \E c \in Calls : AsyncSend(c)
    \/ \E c \in Calls : AsyncClose(c)
    \/ ClearResults
    \/ \E x \in Calls : Cancel(x)

SpecSpawn == Init /\ [][NextSpawn]_vars

\* the same pool made from any of the configurations, a negative maximum included
InitNewPool ==
    /\ \E cfg \in NewPoolConfigs : NewPool(cfg)
    /\ NoCalls
    /\ NoAgent

SpecNewPool == InitNewPool /\ [][NextSpawn]_vars

\* the pool under all three submission routes, its results map never cleared
NextSubmit ==
    \/ \E t \in Tasks : CallSpawn(t)
    \/ \E t \in Tasks : SpawnAsync(t)
    \/ \E ts \in SeqsUpTo(Tasks, MaxBatch) : SpawnBatch(ts)
    \/ \E c \in Calls : BatchSpawn(c)
    \/ \E c \in Calls : ProviderComplete(c)
    \/ \E c \in Calls : SpawnStore(c)
    \/ \E c \in Calls : SpawnReturn(c)
    \/ \E c \in Calls : AsyncSend(c)
    \/ \E c \in Calls : AsyncClose(c)
    \/ \E c \in Calls : BatchCollect(c)
    \/ SpawnBatchReturn
    \/ \E x \in {BatchCtx} \cup Calls : Cancel(x)

SpecSubmit == Init /\ [][NextSubmit]_vars

\* the goroutines keep running, and a provider call returns (its HTTP client
\* has a timeout and follows the context)
Fairness ==
    /\ \A c \in Calls : WF_vars(BatchSpawn(c))
                        /\ WF_vars(ProviderComplete(c)) /\ WF_vars(SpawnStore(c))
                        /\ WF_vars(SpawnReturn(c)) /\ WF_vars(AsyncSend(c))
                        /\ WF_vars(AsyncClose(c)) /\ WF_vars(BatchCollect(c))
    /\ WF_vars(SpawnBatchReturn)

FairSpec == Spec /\ Fairness

\* the pool under SpawnBatch, with the goroutines kept running
NextBatch ==
    \/ \E ts \in SeqsUpTo(Tasks, MaxBatch) : SpawnBatch(ts)
    \/ \E c \in Calls : BatchSpawn(c)
    \/ \E c \in Calls : ProviderComplete(c)
    \/ \E c \in Calls : SpawnStore(c)
    \/ \E c \in Calls : SpawnReturn(c)
    \/ \E c \in Calls : BatchCollect(c)
    \/ SpawnBatchReturn
    \/ \E x \in {BatchCtx} \cup Calls : Cancel(x)

SpecBatch == Init /\ [][NextBatch]_vars

FairBatch == SpecBatch /\ Fairness

\* =================================================================
\* A long-lived Agent, its clone, and a streaming turn end to end
\* =================================================================
\* ---------------------------------------------------------------- bounds
\* longest history from which the caller still starts an operation that appends
MaxHistory == 4
\* most payload lines of a streaming response
MaxWire == 2

\* what the pool's variables are left at
poolSide == <<config, poolVars, cancelled, callVars, asyncVars, batchVars>>
\* what the operations of the agent leave alone: the pool and the backend
aside == <<poolSide, backend, registry>>

\* ------------------------------------------------------------ input data
\* agent.Config values tried (Metadata is nil in both)
AgentConfigs ==
    { [ID |-> <<"a1">>, Provider |-> <<"mock">>, Model |-> PoolModel, Skills |-> Nil,
       SystemPrompt |-> <<>>],
      [ID |-> <<"a1">>, Provider |-> <<"mock">>, Model |-> PoolModel,
       Skills |-> Ptr(ReviewSkill), SystemPrompt |-> <<"be brief">>] }

UserTexts == {<<"hi">>}
SkillNames == {<<"review">>, <<"absent">>}
\* SetMetadata calls tried: the receiver, the key and the value
MetadataWrites == {<<"agent", "k", <<"v1">>>>, <<"clone", "k", <<"v2">>>>}

\* an empty map[string]string
EmptyMeta == [k \in {} |-> <<>>]

ErrStatus == <<"error: status %d">>
ErrRead == <<"read error">>
ErrDecode == <<"decode error">>
ErrStream(e) == <<"stream: ">> \o e

\* the payload lines a backend of each family may put on the wire
NDJSONLines ==
    { [kind |-> "obj", content |-> <<"x">>, done |-> FALSE],
      [kind |-> "obj", content |-> <<"y">>, done |-> TRUE],
      [kind |-> "bad", content |-> <<>>, done |-> FALSE] }

SSELines ==
    { [kind |-> "data", content |-> <<"x">>, finish |-> <<>>],
      [kind |-> "data", content |-> <<"y">>, finish |-> <<"stop">>],
      [kind |-> "[DONE]", content |-> <<>>, finish |-> <<>>],
      [kind |-> "comment", content |-> <<>>, finish |-> <<>>],
      [kind |-> "bad", content |-> <<>>, finish |-> <<>>] }

\* the sequences over S of length 0..n
SeqsFrom0(S, n) == UNION {[1..k -> S] : k \in 0..n}

\* the streaming responses tried: a status other than 200, or status 200 and
\* up to MaxWire lines, after which the body ends or its read fails
Wires ==
    { [family |-> f, status |-> 500, lines |-> <<>>, end |-> "eof"] : f \in {"ollama", "openai"} }
    \cup { [family |-> "ollama", status |-> 200, lines |-> ls, end |-> e] :
             ls \in SeqsFrom0(NDJSONLines, MaxWire), e \in {"eof", "err"} }
    \cup { [family |-> "openai", status |-> 200, lines |-> ls, end |-> e] :
             ls \in SeqsFrom0(SSELines, MaxWire), e \in {"eof", "err"} }

\* ------------------------------------------------------------- agent.New
New(cfg) ==
    [id |-> cfg.ID, provider |-> cfg.Provider, model |-> cfg.Model, skills |-> cfg.Skills,
     systemPrompt |-> cfg.SystemPrompt, messages |-> AgentNew(cfg.SystemPrompt),
     metadata |-> 1]

InitAgent ==
    /\ NewPool([MaxAgents |-> 0, SystemPrompt |-> <<>>, Skills |-> Nil])
    /\ NoCalls
    /\ \E cfg \in AgentConfigs : agent = New(cfg)
    /\ clone = Nil
    /\ heap = <<EmptyMeta>>
    /\ turn = NoTurn
    /\ NoStream
    /\ registry = NewRegistry
    /\ backend = NoBackend

\* the caller uses the agent from one goroutine: it starts no operation while
\* the goroutine of a Stream call is still running
Quiet == forwarder.pc \in {"none", "done"}
Room(n) == Len(agent.messages) + n <= MaxHistory

\* the record of an operation: its name and arguments, the history it found,
\* the request it passed to the provider (Nil when none), what the provider
\* returned, and what the operation returned
Turn(op, skill, message, req, reply, r, e) ==
    [op |-> op, target |-> "agent", skill |-> skill, message |-> message,
     before |-> agent.messages,
     req |-> req, reply |-> reply, resp |-> r, err |-> e]

\* Agent.AddMessage, called by the owner
AgentAddMessage(role, content) ==
    /\ Quiet /\ Room(1)
    /\ agent' = [agent EXCEPT !.messages = AddMessage(@, role, content)]
    /\ turn' = Turn("AddMessage", <<>>, content, Nil, NoReply, Nil, ErrNil)
    /\ UNCHANGED <<clone, heap, wire, producer, forwarder, received, aside>>

\* Agent.Run with the provider's answer out
RunWith(op, skill, message, out) ==
    LET req == RunRequest(agent.messages, agent.model, message)
    IN /\ agent' = [agent EXCEPT !.messages = RunHistory(req.Messages, out)]
       /\ turn' = Turn(op, skill, message, Ptr(req), out, RunReturn(out).resp, RunReturn(out).err)

\* Agent.Run
AgentRun(message) ==
    /\ Quiet /\ Room(2)
    /\ \E done \in BOOLEAN : \E out \in CompleteOutcomes(done) :
          RunWith("Run", <<>>, message, out)
    /\ UNCHANGED <<clone, heap, wire, producer, forwarder, received, aside>>

\* Agent.RunWithSkill
AgentRunWithSkill(skillName, message) ==
    /\ Quiet /\ Room(2)
    /\ LET plan == RunWithSkill(agent.skills, skillName, message)
       IN IF plan.run
          THEN \E done \in BOOLEAN : \E out \in CompleteOutcomes(done) :
                  RunWith("RunWithSkill", skillName, plan.message, out)
          ELSE /\ agent' = agent
               /\ turn' = Turn("RunWithSkill", skillName, message, Nil, NoReply, Nil, plan.err)
    /\ UNCHANGED <<clone, heap, wire, producer, forwarder, received, aside>>

\* ------------------------------------------------- the providers' Stream
\* the error of a read of the body: the connection failed, or the context of
\* the request was canceled
ErrCtx == <<"context canceled">>
ReadError(w) == IF w.end = "canceled" THEN ErrCtx ELSE ErrRead

\* a producer that returns without a word when the read of the body fails
ReadEndSilent(w) == [chunk |-> Nil, exit |-> TRUE]

\* a producer that reports a canceled read as the end of the reply
ReadEndDoneOnCancel(w) ==
    IF w.end = "eof"
    THEN [chunk |-> Nil, exit |-> TRUE]
    ELSE IF w.end = "canceled"
         THEN [chunk |-> Ptr(Chunk(<<>>, TRUE, ErrNil)), exit |-> TRUE]
         ELSE [chunk |-> Ptr(Chunk(<<>>, FALSE, ReadError(w))), exit |-> TRUE]

\* the producer loop once the lines are used up: at the end of the body it
\* returns, on a failed read it sends the error and returns
ReadEnd(w) ==
    IF w.end = "eof"
    THEN [chunk |-> Nil, exit |-> TRUE]
    ELSE [chunk |-> Ptr(Chunk(<<>>, FALSE, ReadError(w))), exit |-> TRUE]

\* a producer loop that leaves out the content of the object that carries done
OllamaStreamStepDropFinal(w) ==
    IF w.lines = <<>>
    THEN ReadEnd(w)
    ELSE LET l == Head(w.lines)
         IN IF l.kind = "bad"
            THEN [chunk |-> Ptr(Chunk(<<>>, FALSE, ErrDecode)), exit |-> TRUE]
            ELSE [chunk |-> Ptr(Chunk(IF l.done THEN <<>> ELSE l.content, l.done, ErrNil)),
                  exit |-> l.done]

\* a producer loop that reads on after the object that carries done
OllamaStreamStepReadsOn(w) ==
    IF w.lines = <<>>
    THEN ReadEnd(w)
    ELSE LET l == Head(w.lines)
         IN IF l.kind = "bad"
            THEN [chunk |-> Ptr(Chunk(<<>>, FALSE, ErrDecode)), exit |-> TRUE]
            ELSE [chunk |-> Ptr(Chunk(l.content, l.done, ErrNil)), exit |-> FALSE]

\* One turn of the producer loop of OllamaProvider.Stream on the unread wire
\* w: the chunk it sends (Nil when none) and whether it returns afterwards.
OllamaStreamStep(w) ==
    IF w.lines = <<>>
    THEN ReadEnd(w)
    ELSE LET l == Head(w.lines)
         IN IF l.kind = "bad"
            THEN [chunk |-> Ptr(Chunk(<<>>, FALSE, ErrDecode)), exit |-> TRUE]
            ELSE [chunk |-> Ptr(Chunk(l.content, l.done, ErrNil)), exit |-> l.done]

\* a scanner loop that returns at data: [DONE] without a chunk
OpenAIStreamStepDoneSilent(w) ==
    IF w.lines = <<>>
    THEN ReadEnd(w)
    ELSE LET l == Head(w.lines)
         IN CASE l.kind = "[DONE]" -> [chunk |-> Nil, exit |-> TRUE]
              [] l.kind = "data" -> [chunk |-> Ptr(Chunk(l.content, l.finish # <<>>, ErrNil)),
                                     exit |-> FALSE]
              [] OTHER -> [chunk |-> Nil, exit |-> FALSE]

\* One turn of the scanner loop of OpenAICompatProvider.Stream
OpenAIStreamStep(w) ==
    IF w.lines = <<>>
    THEN ReadEnd(w)
    ELSE LET l == Head(w.lines)
         IN CASE l.kind = "[DONE]" -> [chunk |-> Ptr(Chunk(<<>>, TRUE, ErrNil)), exit |-> TRUE]
              [] l.kind = "data" -> [chunk |-> Ptr(Chunk(l.content, l.finish # <<>>, ErrNil)),
                                     exit |-> FALSE]
              [] OTHER -> [chunk |-> Nil, exit |-> FALSE]

StreamStep(w) == IF w.family = "ollama" THEN OllamaStreamStep(w) ELSE OpenAIStreamStep(w)

\* Provider.Stream up to its return: an error for a status other than 200
StreamOpen(w) == IF w.status # 200 THEN ErrStatus ELSE ErrNil

\* the producer goroutine reads the next line (or the end) of the body; once
\* it is to return, the deferred resp.Body.Close() drops what is unread, and
\* its return closes the chunks channel
ProducerRead ==
    /\ producer.pc = "read"
    /\ LET st == StreamStep(wire)
       IN /\ wire' = IF st.exit THEN NoWire
                      ELSE [wire EXCEPT !.lines = IF @ = <<>> THEN @ ELSE Tail(@)]
          /\ producer' = IF ~IsNil(st.chunk)
                         THEN [producer EXCEPT !.pc = "send", !.chunk = Deref(st.chunk),
                                               !.exit = st.exit]
                         ELSE IF st.exit THEN [producer EXCEPT !.pc = "done"]
                              ELSE producer
    /\ UNCHANGED <<agent, clone, heap, turn, forwarder, received, aside>>

\* ----------------------------------------------------------- Agent.Stream
\* the loop body of the goroutine up to its send on output
ForwarderNext(f, chunk) ==
    IF chunk.Error # ErrNil
    THEN [f EXCEPT !.pc = "sendErr", !.chunk = chunk]
    ELSE [pc |-> "send", chunk |-> chunk, fullContent |-> f.fullContent \o chunk.Content]

\* Agent.Stream up to its return
AgentStream(message, w) ==
    /\ Quiet /\ Room(2)
    /\ LET req == [Model |-> agent.model,
                   Messages |-> AddMessage(agent.messages, "user", message),
                   Stream |-> TRUE]
       IN /\ agent' = [agent EXCEPT !.messages = req.Messages]
          /\ IF StreamOpen(w) # ErrNil
             THEN /\ turn' = Turn("Stream", <<>>, message, Ptr(req), NoReply, Nil,
                                   ErrStream(StreamOpen(w)))
                  /\ wire' = NoWire
                  /\ producer' = NoProducer
                  /\ forwarder' = NoForwarder
             ELSE /\ turn' = Turn("Stream", <<>>, message, Ptr(req), NoReply, Nil, ErrNil)
                  /\ wire' = w
                  /\ producer' = [NoProducer EXCEPT !.pc = "read"]
                  /\ forwarder' = [NoForwarder EXCEPT !.pc = "recv"]
    /\ received' = <<>>
    /\ UNCHANGED <<clone, heap, aside>>

\* the producer once its send on chunks has been taken: it returns after a
\* terminal chunk and reads on otherwise (sent lists what it has delivered)
ProducerSent(p) ==
    [pc |-> IF p.exit THEN "done" ELSE "read", chunk |-> NoChunk, exit |-> FALSE,
     sent |-> Append(p.sent, p.chunk)]

\* chunk := <-chunks: the producer's send and the forwarder's receive meet
ForwarderRecv ==
    /\ producer.pc = "send"
    /\ forwarder.pc = "recv"
    /\ forwarder' = ForwarderNext(forwarder, producer.chunk)
    /\ producer' = ProducerSent(producer)
    /\ UNCHANGED <<agent, clone, heap, turn, wire, received, aside>>

\* output <- chunk meets the consumer's receive; after an error chunk the
\* goroutine returns and the deferred close(output) runs
ConsumerRecv ==
    /\ forwarder.pc \in {"send", "sendErr"}
    /\ received' = Append(received, forwarder.chunk)
    /\ forwarder' = IF forwarder.pc = "sendErr" THEN [NoForwarder EXCEPT !.pc = "done"]
                    ELSE [forwarder EXCEPT !.pc = IF forwarder.chunk.Done THEN "append"
                                                  ELSE "recv"]
    /\ UNCHANGED <<agent, clone, heap, turn, wire, producer, aside>>

\* if chunk.Done { a.AddMessage("assistant", fullContent.String()) }
ForwarderAppend ==
    /\ forwarder.pc = "append"
    /\ agent' = [agent EXCEPT !.messages = AddMessage(@, "assistant", forwarder.fullContent)]
    /\ forwarder' = [forwarder EXCEPT !.pc = "recv"]
    /\ UNCHANGED <<clone, heap, turn, wire, producer, received, aside>>

\* the range over chunks ends when the producer closed it: the goroutine
\* returns and close(output) runs
ForwarderClose ==
    /\ forwarder.pc = "recv"
    /\ producer.pc = "done"
    /\ forwarder' = [NoForwarder EXCEPT !.pc = "done"]
    /\ UNCHANGED <<agent, clone, heap, turn, wire, producer, received, aside>>

\* ------------------------------------------- ClearHistory, Clone, metadata
\* a ClearHistory that drops the system message too
ClearedHistoryEmpty(prompt) == <<>>

\* Agent.ClearHistory: the history it leaves
ClearedHistory(prompt) ==
    IF prompt # <<>> THEN <<[Role |-> "system", Content |-> prompt]>> ELSE <<>>

AgentClearHistory ==
    /\ Quiet
    /\ agent' = [agent EXCEPT !.messages = ClearedHistory(agent.systemPrompt)]
    /\ turn' = Turn("ClearHistory", <<>>, <<>>, Nil, NoReply, Nil, ErrNil)
    /\ UNCHANGED <<clone, heap, wire, producer, forwarder, received, aside>>

\* a Clone that shares the original's metadata map
CloneSharedMetadata(a, newID) ==
    [id |-> IF newID = <<>> THEN a.id \o <<"-clone-">> ELSE newID,
     provider |-> a.provider, model |-> a.model, skills |-> a.skills,
     systemPrompt |-> a.systemPrompt,
     messages |-> IF a.systemPrompt # <<>>
                  THEN <<[Role |-> "system", Content |-> a.systemPrompt]>> ELSE <<>>,
     metadata |-> a.metadata]

\* Agent.Clone: the agent it returns; its metadata map is a new one, at address 2
CloneOf(a, newID) ==
    [id |-> IF newID = <<>> THEN a.id \o <<"-clone-">> ELSE newID,
     provider |-> a.provider, model |-> a.model, skills |-> a.skills,
     systemPrompt |-> a.systemPrompt,
     messages |-> IF a.systemPrompt # <<>>
                  THEN <<[Role |-> "system", Content |-> a.systemPrompt]>> ELSE <<>>,
     metadata |-> 2]

\* Agent.Clone: the new map is filled with the original's entries (an earlier
\* clone is dropped)
AgentClone(newID) ==
    /\ Quiet
    /\ clone' = Ptr(CloneOf(agent, newID))
    /\ heap' = <<heap[1], heap[agent.metadata]>>
    /\ turn' = Turn("Clone", <<>>, <<>>, Nil, NoReply, Nil, ErrNil)
    /\ UNCHANGED <<agent, wire, producer, forwarder, received, aside>>

\* Agent.GetMetadata (the zero value for a missing key)
GetMetadata(a, key) == IF key \in DOMAIN heap[a.metadata] THEN heap[a.metadata][key] ELSE <<>>

\* Agent.SetMetadata on the agent or on its clone
AgentSetMetadata(who, key, value) ==
    /\ who = "clone" => ~IsNil(clone)
    /\ LET a == IF who = "clone" THEN Deref(clone) ELSE agent
       IN heap' = [heap EXCEPT ![a.metadata] = MapStore(@, key, value)]
    /\ turn' = [Turn("SetMetadata", <<key>>, value, Nil, NoReply, Nil, ErrNil)
                EXCEPT !.target = who]
    /\ UNCHANGED <<agent, clone, wire, producer, forwarder, received, aside>>

\* the agent used through its synchronous operations
NextAgent ==
    \/ \E role \in {"user", "assistant"} : AgentAddMessage(role, <<"note">>)
    \/ \E m \in UserTexts : AgentRun(m)
    \/ \E n \in SkillNames, m \in UserTexts : AgentRunWithSkill(n, m)
    \/ AgentClearHistory
    \/ \E id \in {<<>>, <<"a2">>} : AgentClone(id)
    \/ \E mw \in MetadataWrites : AgentSetMetadata(mw[1], mw[2], mw[3])

SpecAgent == InitAgent /\ [][NextAgent]_vars

\* the agent used for streaming turns
NextStream ==
    \/ \E role \in {"user", "assistant"} : AgentAddMessage(role, <<"note">>)
    \/ \E m \in UserTexts, w \in Wires : AgentStream(m, w)
    \/ ProducerRead
    \/ ForwarderRecv
    \/ ConsumerRecv
    \/ ForwarderAppend
    \/ ForwarderClose
    \/ AgentClearHistory

SpecStream == InitAgent /\ [][NextStream]_vars

\* the streaming responses tried when streaming turns are mixed with the
\* other operations: those of at most one line
TurnWires == {w \in Wires : Len(w.lines) <= 1}

\* the agent used through all its operations on the history, by an owner that
\* starts no operation while a stream is under way
NextTurns ==
    \/ \E role \in {"user", "assistant"} : AgentAddMessage(role, <<"note">>)
    \/ \E m \in UserTexts : AgentRun(m)
    \/ \E n \in SkillNames, m \in UserTexts : AgentRunWithSkill(n, m)
    \/ \E m \in UserTexts, w \in TurnWires : AgentStream(m, w)
    \/ ProducerRead
    \/ ForwarderRecv
    \/ ConsumerRecv
    \/ ForwarderAppend
    \/ ForwarderClose
    \/ AgentClearHistory
    \/ \E id \in {<<>>, <<"a2">>} : AgentClone(id)

SpecTurns == InitAgent /\ [][NextTurns]_vars

\* ------------------------------------------------------- the providers
\* the longest reply of a backend, in pieces
MaxPieces == 2

\* ps[1] \o ps[2] \o ...: the whole content a backend answers in pieces
RECURSIVE Join(_)
Join(ps) == IF ps = <<>> THEN <<>> ELSE Head(ps) \o Join(Tail(ps))

\* The deterministic backends tried: one that answers every request with a
\* status other than 200, and those that answer with the same content, cut
\* in the same pieces when streamed; a streaming backend flags the end on
\* an event of its own with no content ("finalEmpty") or on the event of the
\* last piece ("lastCarries"). An OpenAI-compatible backend may also answer
\* with status 200 and an empty list of choices ("noChoices"). usage holds
\* the token counts the backend reports.
SomeUsage == [prompt |-> 1, completion |-> 1, total |-> 2]

Backends ==
    { [family |-> f, status |-> 500, pieces |-> <<>>, style |-> "finalEmpty",
       usage |-> SomeUsage] : f \in {"ollama", "openai"} }
    \cup { [family |-> f, status |-> 200, pieces |-> ps, style |-> st, usage |-> SomeUsage] :
             f \in {"ollama", "openai"},
             ps \in SeqsFrom0({<<"x">>, <<"y">>}, MaxPieces),
             st \in {"finalEmpty", "lastCarries"} }
    \cup { [family |-> "openai", status |-> 200, pieces |-> <<>>, style |-> "noChoices",
             usage |-> SomeUsage] }

\* the body a backend answers to a request with stream=false
CompleteBody(b) ==
    IF b.family = "ollama"
    THEN [model |-> PoolModel, content |-> Join(b.pieces), done |-> TRUE,
          done_reason |-> <<"stop">>, prompt_eval_count |-> b.usage.prompt,
          eval_count |-> b.usage.completion]
    ELSE [model |-> PoolModel,
          choices |-> IF b.style = "noChoices" THEN <<>>
                      ELSE <<[message |-> Join(b.pieces), delta |-> <<>>,
                              finish_reason |-> <<"stop">>]>>,
          prompt_tokens |-> b.usage.prompt, completion_tokens |-> b.usage.completion,
          total_tokens |-> b.usage.total]

\* the lines of the pieces ps, the last one flagged when last is TRUE: one
\* JSON object a line for Ollama, one data line followed by a blank line for
\* an OpenAI-compatible server
RECURSIVE PieceLines(_, _, _)
PieceLines(family, ps, last) ==
    IF ps = <<>> THEN <<>>
    ELSE LET flag == last /\ Len(ps) = 1
         IN (IF family = "ollama"
             THEN <<[kind |-> "obj", content |-> Head(ps), done |-> flag]>>
             ELSE <<[kind |-> "data", content |-> Head(ps),
                     finish |-> IF flag THEN <<"stop">> ELSE <<>>],
                    [kind |-> "comment", content |-> <<>>, finish |-> <<>>]>>)
            \o PieceLines(family, Tail(ps), last)

\* the response a backend answers to a request with stream=true
StreamBody(b) ==
    LET carried == b.style = "lastCarries" /\ b.pieces # <<>>
        final == IF carried \/ b.style = "noChoices" THEN <<>>
                 ELSE IF b.family = "ollama"
                      THEN <<[kind |-> "obj", content |-> <<>>, done |-> TRUE]>>
                      ELSE <<[kind |-> "data", content |-> <<>>, finish |-> <<"stop">>],
                             [kind |-> "comment", content |-> <<>>, finish |-> <<>>]>>
        close == IF b.family = "ollama" THEN <<>>
                 ELSE <<[kind |-> "[DONE]", content |-> <<>>, finish |-> <<>>]>>
    IN [family |-> b.family, status |-> b.status,
        lines |-> IF b.status # 200 THEN <<>>
                  ELSE PieceLines(b.family, b.pieces, carried) \o final \o close,
        end |-> "eof"]

\* OllamaProvider.Complete on the response (status, body)
OllamaComplete(status, body) ==
    IF status # 200 THEN [resp |-> Nil, err |-> ErrStatus]
    ELSE [resp |-> Ptr([Content |-> body.content, Model |-> body.model,
                        FinishReason |-> body.done_reason,
                        TokensUsed |-> body.prompt_eval_count + body.eval_count]),
          err |-> ErrNil]

\* a Complete that adds up the prompt and completion counts itself
OpenAICompleteRecomputed(status, body) ==
    IF status # 200 THEN [resp |-> Nil, err |-> ErrStatus]
    ELSE IF Len(body.choices) = 0 THEN [resp |-> Nil, err |-> <<"no choices in response">>]
    ELSE [resp |-> Ptr([Content |-> body.choices[1].message, Model |-> body.model,
                        FinishReason |-> body.choices[1].finish_reason,
                        TokensUsed |-> body.prompt_tokens + body.completion_tokens]),
          err |-> ErrNil]

\* OpenAICompatProvider.Complete on the response (status, body)
OpenAIComplete(status, body) ==
    IF status # 200 THEN [resp |-> Nil, err |-> ErrStatus]
    ELSE IF Len(body.choices) = 0 THEN [resp |-> Nil, err |-> <<"no choices in response">>]
    ELSE [resp |-> Ptr([Content |-> body.choices[1].message, Model |-> body.model,
                        FinishReason |-> body.choices[1].finish_reason,
                        TokensUsed |-> body.total_tokens]),
          err |-> ErrNil]

Complete(b) ==
    IF b.family = "ollama" THEN OllamaComplete(b.status, CompleteBody(b))
    ELSE OpenAIComplete(b.status, CompleteBody(b))

\* a provider on its own, in front of one backend
InitProvider ==
    /\ NewPool([MaxAgents |-> 0, SystemPrompt |-> <<>>, Skills |-> Nil])
    /\ NoCalls
    /\ agent = ZeroAgent
    /\ clone = Nil
    /\ heap = <<>>
    /\ turn = NoTurn
    /\ NoStream
    /\ registry = NewRegistry
    /\ backend \in Backends

\* no Stream call of the client is under way
Idle == producer.pc \in {"none", "done"}

\* Provider.Complete, called by a client: turn.reply keeps what it returned
CompleteCall ==
    /\ Idle
    /\ LET out == Complete(backend)
       IN turn' = [NoTurn EXCEPT !.op = "Complete", !.reply = out,
                                 !.resp = out.resp, !.err = out.err]
    /\ UNCHANGED <<agent, clone, heap, wire, producer, forwarder, received, aside>>

\* Provider.Stream up to its return, called by the client after Complete
StreamCall ==
    /\ Idle
    /\ turn.op = "Complete"
    /\ LET w == StreamBody(backend)
       IN /\ turn' = [turn EXCEPT !.op = "Stream", !.resp = Nil, !.err = StreamOpen(w)]
          /\ IF StreamOpen(w) # ErrNil
             THEN wire' = NoWire /\ producer' = NoProducer
             ELSE wire' = w /\ producer' = [NoProducer EXCEPT !.pc = "read"]
    /\ received' = <<>>
    /\ UNCHANGED <<agent, clone, heap, forwarder, aside>>

\* chunks <- chunk meets the receive of the client
ChunksRecv ==
    /\ producer.pc = "send"
    /\ received' = Append(received, producer.chunk)
    /\ producer' = ProducerSent(producer)
    /\ UNCHANGED <<agent, clone, heap, turn, wire, forwarder, aside>>

NextProvider ==
    \/ CompleteCall
    \/ StreamCall
    \/ ProducerRead
    \/ ChunksRecv

SpecProvider == InitProvider /\ [][NextProvider]_vars

\* --------------------------------------------- a provider's Stream alone
InitWire ==
    /\ NewPool([MaxAgents |-> 0, SystemPrompt |-> <<>>, Skills |-> Nil])
    /\ NoCalls
    /\ agent = ZeroAgent
    /\ clone = Nil
    /\ heap = <<>>
    /\ turn = NoTurn
    /\ NoStream
    /\ registry = NewRegistry
    /\ backend = NoBackend

\* Provider.Stream up to its return, on the streaming response w
StreamWire(w) ==
    /\ Idle
    /\ turn' = [NoTurn EXCEPT !.op = "Stream", !.err = StreamOpen(w)]
    /\ IF StreamOpen(w) # ErrNil
       THEN wire' = NoWire /\ producer' = NoProducer
       ELSE wire' = w /\ producer' = [NoProducer EXCEPT !.pc = "read"]
    /\ received' = <<>>
    /\ UNCHANGED <<agent, clone, heap, forwarder, aside>>

\* the context of the Stream call is canceled while the producer runs: what
\* the reader of the body holds in its buffer (the first k unread lines) can
\* still be taken, the next read of the body fails
CancelStream(k) ==
    /\ producer.pc \in {"read", "send"}
    /\ wire.end # "canceled"
    /\ k <= Len(wire.lines)
    /\ wire' = [wire EXCEPT !.lines = SubSeq(@, 1, k), !.end = "canceled"]
    /\ UNCHANGED <<agent, clone, heap, turn, producer, forwarder, received, aside>>

NextWire ==
    \/ \E w \in Wires : StreamWire(w)
    \/ ProducerRead
    \/ ChunksRecv
    \/ \E k \in 0..MaxWire : CancelStream(k)

SpecWire == InitWire /\ [][NextWire]_vars

\* the producer goroutine is scheduled, and the consumer keeps receiving
FairWire == SpecWire /\ WF_vars(ProducerRead) /\ WF_vars(ChunksRecv)

\* the producer goroutine is scheduled; the consumer may stop receiving
FairProducer == SpecWire /\ WF_vars(ProducerRead)

\* Stream of one provider alone: of the Ollama provider, on NDJSON responses
NextNDJSON ==
    \/ \E w \in {x \in Wires : x.family = "ollama"} : StreamWire(w)
    \/ ProducerRead
    \/ ChunksRecv
    \/ \E k \in 0..MaxWire : CancelStream(k)

SpecNDJSON == InitWire /\ [][NextNDJSON]_vars

\* and of the OpenAI-compatible provider, on SSE responses
NextSSE ==
    \/ \E w \in {x \in Wires : x.family = "openai"} : StreamWire(w)
    \/ ProducerRead
    \/ ChunksRecv
    \/ \E k \in 0..MaxWire : CancelStream(k)

SpecSSE == InitWire /\ [][NextSSE]_vars

\* ----------------------------------------- Complete and the token counts
\* the largest token count a backend reports
MaxTokens == 3

\* backends that answer with status 200 and any token counts up to MaxTokens
\* (Ollama reports no total)
TokenBackends ==
    { [family |-> "ollama", status |-> 200, pieces |-> <<<<"x">>>>, style |-> "finalEmpty",
       usage |-> [prompt |-> p, completion |-> c, total |-> 0]] :
        p \in 0..MaxTokens, c \in 0..MaxTokens }
    \cup { [family |-> "openai", status |-> 200, pieces |-> <<<<"x">>>>, style |-> "finalEmpty",
             usage |-> [prompt |-> p, completion |-> c, total |-> t]] :
             p \in 0..MaxTokens, c \in 0..MaxTokens, t \in 0..MaxTokens }

InitTokens ==
    /\ NewPool([MaxAgents |-> 0, SystemPrompt |-> <<>>, Skills |-> Nil])
    /\ NoCalls
    /\ agent = ZeroAgent
    /\ clone = Nil
    /\ heap = <<>>
    /\ turn = NoTurn
    /\ NoStream
    /\ registry = NewRegistry
    /\ backend \in TokenBackends

NextTokens == CompleteCall

SpecTokens == InitTokens /\ [][NextTokens]_vars

\* ------------------------------------------------------------- Registry
\* the longest model spec tried
MaxSpec == 4

\* the characters of the specs tried
SpecChars == {"a", "b", "/"}

\* the names providers are registered under (a provider is known by its name)
ProviderNames == {<<"a">>, <<"a", "b">>, <<"a", "/", "b">>, <<>>}

\* a loop that remembers the last '/' it meets
LastSlash(spec) ==
    IF \E i \in 1..Len(spec) : spec[i] = "/"
    THEN CHOOSE i \in 1..Len(spec) : spec[i] = "/" /\ \A j \in (i+1)..Len(spec) : spec[j] # "/"
    ELSE 0

\* ResolveModel, the loop: the index of the first '/' of spec, 0 when none
FirstSlash(spec) ==
    IF \E i \in 1..Len(spec) : spec[i] = "/"
    THEN CHOOSE i \in 1..Len(spec) : spec[i] = "/" /\ \A j \in 1..(i-1) : spec[j] # "/"
    ELSE 0

NotResolved == [provider |-> Nil, model |-> <<>>, ok |-> FALSE]

\* Registry.ResolveModel
ResolveModel(providers, spec) ==
    LET i == FirstSlash(spec)
    IN IF i = 0 THEN NotResolved
       ELSE LET providerName == SubSeq(spec, 1, i - 1)
                modelName == SubSeq(spec, i + 1, Len(spec))
            IN IF providerName \in providers
               THEN [provider |-> Ptr(providerName), model |-> modelName, ok |-> TRUE]
               ELSE NotResolved

InitRegistry ==
    /\ NewPool([MaxAgents |-> 0, SystemPrompt |-> <<>>, Skills |-> Nil])
    /\ NoCalls
    /\ agent = ZeroAgent
    /\ clone = Nil
    /\ heap = <<>>
    /\ turn = NoTurn
    /\ NoStream
    /\ backend = NoBackend
    /\ registry = NewRegistry

\* Registry.Register
Register(name) ==
    /\ registry' = registry \cup {name}
    /\ turn' = [NoTurn EXCEPT !.op = "Register", !.message = name]
    /\ UNCHANGED <<agent, clone, heap, wire, producer, forwarder, received, poolSide, backend>>

\* a caller resolves spec: turn keeps the spec and what ResolveModel returned
ResolveModelCall(spec) ==
    /\ turn' = [NoTurn EXCEPT !.op = "ResolveModel", !.message = spec,
                              !.resp = Ptr(ResolveModel(registry, spec))]
    /\ UNCHANGED <<agent, clone, heap, wire, producer, forwarder, received, poolSide, backend,
                   registry>>

NextRegistry ==
    \/ \E name \in ProviderNames : Register(name)
    \/ \E spec \in SeqsFrom0(SpecChars, MaxSpec) : ResolveModelCall(spec)

SpecRegistry == InitRegistry /\ [][NextRegistry]_vars

\* ------------------------------------------------------- state functions
\* the invocation holds a slot: admitted and not yet past the deferred decrement
InFlight(c) == pc[c] \in {"inflight", "ran", "stored"}
InFlightCalls == {c \in Calls : InFlight(c)}

\* Spawn has returned to its caller
Returned(c) == pc[c] \in {"returned", "sent", "closed", "joined"}

\* the invocation has stored its Result
Stored(c) == c \in admitted /\ (pc[c] = "stored" \/ Returned(c))

TypeOK ==
    /\ activeCount \in Int
    /\ admitted \subseteq Calls
    /\ pc \in [Calls -> {"idle", "start", "inflight", "ran", "stored",
                         "returned", "sent", "closed", "joined"}]

\* an invocation enters Spawn in this step (takes the admission test)
Enters(c) == pc[c] \in {"idle", "start"} /\ pc'[c] \notin {"idle", "start"}

\* the invocation was turned away at the admission test
Rejected(c) == Returned(c) /\ c \notin admitted

\* ------------------------------------------------------------------ C1
\* C1: with max_concurrent = N, whatever the interleaving of Spawn, SpawnAsync
\* and SpawnBatch calls, the active count is never above N and never negative.
C1_ActiveWithinMax == 0 <= activeCount /\ activeCount <= maxAgents

\* the pool is full, by invocations of two different kinds, or full with a
\* further invocation turned away
C1_Witness ==
    /\ activeCount = maxAgents
    /\ \/ \E c, d \in InFlightCalls : call[c].kind # call[d].kind
       \/ \E c \in InFlightCalls, d \in Calls : Rejected(d) /\ call[c].kind # call[d].kind

\* ------------------------------------------------------------------ C2
\* C2: a Spawn that finds active >= max_concurrent returns, in that very step
\* (it waits for no in-flight task), the pool-exhausted error and no Result,
\* sends nothing to the backend, and leaves the active count and the results
\* map as they were.
C2_RejectionImmediate ==
    [][\A c \in Calls :
          (Enters(c) /\ activeCount >= maxAgents)
          => /\ pc'[c] = "returned"
             /\ IsNil(ret'[c].result)
             /\ ret'[c].err = ErrExhausted
             /\ requests'[c] = <<>>
             /\ activeCount' = activeCount
             /\ results' = results]_vars

\* a call was turned away while the call holding the slot is still in flight
C2_Witness ==
    \E c, d \in Calls : Rejected(c) /\ InFlight(d) /\ requests[c] = <<>>
                        /\ ret[c].err = ErrExhausted

\* ------------------------------------------------------------------ C3
\* C3: SpawnBatch on M tasks returns M entries and the entry at index i is the
\* outcome of tasks[i]: it carries TaskID = tasks[i].ID.
C3_BatchEntriesInOrder ==
    batchPc = "returned"
    => /\ Len(batchRet) = Len(batchTasks)
       /\ \A i \in 1..Len(batchTasks) :
             /\ ~IsNil(batchRet[i])
             /\ Deref(batchRet[i]).TaskID = batchTasks[i].ID

\* ------------------------------------------------------------------ C4
\* C4: every entry of the slice SpawnBatch returns is a non-nil Result, and
\* the entry of a task that was not admitted carries the capacity error.
C4_RejectedTaskGetsResult ==
    batchPc = "returned"
    => \A i \in 1..Len(batchTasks) :
          /\ ~IsNil(batchRet[i])
          /\ Rejected(batchCalls[i]) => Deref(batchRet[i]).Error = ErrExhausted

\* ------------------------------------------------------------------ C5
\* the provider answered the invocation's request
BackendSucceeded(c) == ~IsNil(completed[c].resp) /\ completed[c].err = ErrNil

\* C5: in a batch, a task that was admitted and whose backend call succeeded
\* yields a Result with that response and no error at its index, whatever
\* became of its siblings, and the batch returns a full-length slice.
C5_SiblingsIsolated ==
    batchPc = "returned"
    => /\ Len(batchRet) = Len(batchTasks)
       /\ \A i \in 1..Len(batchTasks) :
             (batchCalls[i] \in admitted /\ BackendSucceeded(batchCalls[i]))
             => /\ ~IsNil(batchRet[i])
                /\ Deref(batchRet[i]).Response = completed[batchCalls[i]].resp
                /\ Deref(batchRet[i]).Error = ErrNil

\* a batch returned in which one task succeeded and a sibling failed or was
\* turned away
C5_Witness ==
    /\ batchPc = "returned"
    /\ \E i, j \in 1..Len(batchTasks) :
          /\ BackendSucceeded(batchCalls[i])
          /\ ~IsNil(batchRet[i])
          /\ ret[batchCalls[j]].err # ErrNil

\* ------------------------------------------------------------------ C6
\* the invocation's provider call was cut short by the cancellation of its context
Canceled(c) == completed[c].err = ErrCanceled

\* C6: when the context of an admitted Spawn is canceled before the backend
\* call completes, the call ends with an error; once that Spawn has returned
\* (with the error) it holds no slot, and a Spawn entering afterwards is
\* admitted exactly when fewer than max_concurrent other calls are in flight.
C6_CancelReleasesSlot ==
    [][/\ \A c \in Calls :
             (pc[c] = "inflight" /\ CtxDone(call[c].ctx) /\ pc'[c] # "inflight")
             => (Canceled(c)' /\ err'[c] # ErrNil)
       /\ \A c \in Calls :
             (Returned(c)' /\ Canceled(c)')
             => /\ ret'[c].err # ErrNil
                /\ ~IsNil(ret'[c].result)
                /\ activeCount' = Cardinality(InFlightCalls')
       /\ \A d \in Calls :
             (Enters(d) /\ \E c \in Calls : Returned(c) /\ Canceled(c))
             => (d \in admitted' <=> Cardinality(InFlightCalls) < maxAgents)]_vars

\* on a pool of one slot, a call was canceled in flight and has returned, and
\* a later call has taken the slot
C6_Witness ==
    /\ maxAgents = 1
    /\ \E c, d \in Calls : /\ c < d
                           /\ Returned(c) /\ Canceled(c) /\ ret[c].err # ErrNil
                           /\ InFlight(d)

\* ------------------------------------------------------------------ C7
\* C7: the active count equals the number of Spawn calls admitted and not yet
\* returned, so it is 0 when none is in flight.
C7_ActiveIsInFlight == ActiveCount = Cardinality(InFlightCalls)

\* the count is back to 0 after two calls left by different error paths
\* (skill not found, cancellation or backend error)
C7_Witness ==
    /\ activeCount = 0
    /\ \E c, d \in admitted :
          /\ Returned(c) /\ Returned(d)
          /\ requests[c] = <<>> /\ ret[c].err # ErrNil
          /\ completed[d].err # ErrNil

\* ------------------------------------------------------------------ C8
\* the task of an admitted invocation failed: the skill was not found or the
\* provider returned an error
TaskFailed(c) == requests[c] = <<>> \/ completed[c].err # ErrNil

\* C8: an admitted Spawn returns a non-nil Result whose Error equals the
\* returned error; both are set when the task failed, and when it succeeded
\* both are nil and the Result has its Response.
C8_ErrorMirrorsResult ==
    \A c \in admitted :
       Returned(c)
       => /\ ~IsNil(ret[c].result)
          /\ ret[c].err = Deref(ret[c].result).Error
          /\ IF TaskFailed(c)
             THEN ret[c].err # ErrNil
             ELSE ret[c].err = ErrNil /\ ~IsNil(Deref(ret[c].result).Response)

\* one call returned a failure and another a success
C8_Witness ==
    \E c, d \in admitted :
       /\ Returned(c) /\ Returned(d)
       /\ completed[c].err = ErrBackend /\ Deref(ret[c].result).Error # ErrNil
       /\ ret[d].err = ErrNil /\ ~IsNil(Deref(ret[d].result).Response)

\* ------------------------------------------------------------------ C9
\* this step is invocation c storing its Result
Stores(c) == pc[c] = "ran" /\ pc'[c] = "stored"

\* C9: the Result an admitted Spawn stored, for a success or a failure, is
\* what GetResult(task.ID) finds from then on, until another Spawn stores
\* under the same id or ClearResults runs; and GetResult does not find an id
\* under which no Spawn has stored.
C9_ResultRetrievable ==
    [][/\ \A c \in Calls :
             Stores(c)
             => GetResult(call[c].task.ID)' = [result |-> result'[c], ok |-> TRUE]
       /\ \A c \in Calls :
             (Stored(c) /\ GetResult(call[c].task.ID) = [result |-> result[c], ok |-> TRUE])
             => \/ GetResult(call[c].task.ID)' = [result |-> result[c], ok |-> TRUE]
                \/ results' = EmptyMap
                \/ \E d \in Calls \ {c} : Stores(d) /\ call[d].task.ID = call[c].task.ID
       /\ \A id \in TaskIDs :
             (\A c \in Calls : Stored(c)' => call'[c].task.ID # id)
             => ~GetResult(id)'.ok]_vars

\* a failed call has returned and GetResult finds its Result, while the other
\* id is not found
C9_Witness ==
    \E c \in admitted, id \in TaskIDs :
       /\ Returned(c) /\ ret[c].err # ErrNil
       /\ GetResult(call[c].task.ID) = [result |-> ret[c].result, ok |-> TRUE]
       /\ ~GetResult(id).ok

\* ----------------------------------------------------------------- C10
\* C10: a store under an id the map already holds replaces that entry by the
\* storing call's Result and adds no entry (the last write wins), leaving the
\* other entries alone; the stored-result count of Stats goes up only when the
\* id is new, so it counts distinct ids.
C10_LastWriteWins ==
    [][\A c \in Calls :
          Stores(c)
          => LET id == call[c].task.ID
             IN /\ results'[id].addr = c
                /\ \A k \in DOMAIN results \ {id} :
                      k \in DOMAIN results' /\ results'[k] = results[k]
                /\ Stats'.Results = Stats.Results + (IF id \in DOMAIN results THEN 0 ELSE 1)
                /\ Stats'.Results <= Cardinality({call[d].task.ID : d \in {e \in Calls : Stored(e)'}})]_vars

\* two calls stored under one id: the map has the one entry, and it is the
\* Result of the call that was made first and stored last
C10_Witness ==
    \E c, d \in Calls :
       /\ c < d /\ Stored(c) /\ Stored(d)
       /\ call[c].task.ID = call[d].task.ID
       /\ Deref(result[d]).Error = ErrNil
       /\ results = [k \in {call[c].task.ID} |-> Deref(result[c])]
       /\ Stats.Results = 1

\* ----------------------------------------------------------------- C11
\* C11: the channel of every SpawnAsync call, also of one made on an exhausted
\* pool, has delivered exactly one Result when it is closed, and that Result
\* carries the error when the task failed.
C11_AsyncDeliversOneResult ==
    \A c \in Calls :
       (call[c].kind = "async" /\ chClosed[c])
       => /\ Len(ch[c]) = 1
          /\ ~IsNil(ch[c][1])
          /\ ret[c].err # ErrNil => Deref(ch[c][1]).Error # ErrNil

\* ----------------------------------------------------------------- C12
\* C12: the pool's maximum is 5 when the configured one is zero or negative
\* and the configured one otherwise, and until a Spawn is made the pool has
\* active count 0 and no stored result.
C12_NewPoolDefaults ==
    /\ maxAgents = (IF config.MaxAgents <= 0 THEN 5 ELSE config.MaxAgents)
    /\ IdleCalls = Calls => (ActiveCount = 0 /\ Stats.Results = 0 /\ ~GetResult("a").ok
                             /\ ~GetResult("b").ok)

\* a pool just made from a configuration with a negative maximum
C12_Witness ==
    /\ config.MaxAgents < 0
    /\ Stats = [Active |-> 0, MaxAgents |-> 5, Results |-> 0]
    /\ IdleCalls = Calls

\* ----------------------------------------------------------------- C13
\* C13: after a Run whose provider call succeeded, the history is the history
\* before it followed by the user message with the given text and an assistant
\* message with the content of the provider's response, and Run returned that
\* response and no error.
C13_RunAppendsTurn ==
    (turn.op = "Run" /\ turn.reply.err = ErrNil)
    => /\ agent.messages =
             turn.before \o <<[Role |-> "user", Content |-> turn.message],
                              [Role |-> "assistant", Content |-> Deref(turn.reply.resp).Content]>>
       /\ turn.resp = turn.reply.resp
       /\ turn.err = ErrNil

\* a Run succeeded on a history that already held an earlier turn
C13_Witness ==
    /\ turn.op = "Run" /\ turn.reply.err = ErrNil
    /\ Len(turn.before) >= 2
    /\ Len(agent.messages) = Len(turn.before) + 2

\* ----------------------------------------------------------------- C14
\* C14: after a Run whose provider call failed, Run returned an error and no
\* response, and the history is the history before it followed by the user
\* message only.
C14_RunFailureKeepsUser ==
    (turn.op = "Run" /\ turn.reply.err # ErrNil)
    => /\ turn.err # ErrNil
       /\ IsNil(turn.resp)
       /\ agent.messages = Append(turn.before, [Role |-> "user", Content |-> turn.message])

\* a Run failed on a non-empty history
C14_Witness ==
    /\ turn.op = "Run" /\ turn.reply.err = ErrBackend
    /\ turn.before # <<>>
    /\ agent.messages[Len(agent.messages)].Role = "user"

\* ----------------------------------------------------------------- C15
\* C15: a RunWithSkill on an agent with no loader bound, or for a name its
\* loader does not know, returns the skill-not-found error and no response,
\* makes no provider call and leaves the history as it was.
C15_SkillNotFoundNoFallback ==
    (turn.op = "RunWithSkill"
     /\ (IsNil(agent.skills) \/ turn.skill \notin DOMAIN Deref(agent.skills)))
    => /\ turn.err = ErrSkillNotFound(turn.skill)
       /\ IsNil(turn.resp)
       /\ IsNil(turn.req)
       /\ agent.messages = turn.before

\* ----------------------------------------------------------------- C19
\* C19: the agent Clone returns has the system message as its whole history
\* when a system prompt is configured and an empty history otherwise, has the
\* original's provider, model and system prompt and the original's metadata
\* entries, and Clone leaves the original's history as it was; afterwards a
\* SetMetadata on the clone leaves every metadata value of the original as it
\* was, and a SetMetadata on the original every value of the clone.
C19_CloneFreshAndIndependent ==
    [][/\ turn'.op = "Clone"
          => LET c == Deref(clone')
             IN /\ c.messages = (IF agent.systemPrompt # <<>>
                                 THEN <<[Role |-> "system", Content |-> agent.systemPrompt]>>
                                 ELSE <<>>)
                /\ Len(c.messages) = (IF agent.systemPrompt # <<>> THEN 1 ELSE 0)
                /\ c.provider = agent.provider /\ c.model = agent.model
                /\ c.systemPrompt = agent.systemPrompt
                /\ heap'[c.metadata] = heap[agent.metadata]
                /\ agent' = agent
       /\ (turn'.op = "SetMetadata" /\ ~IsNil(clone))
          => /\ turn'.target = "clone"
                => /\ GetMetadata(agent, "k")' = GetMetadata(agent, "k")
                   /\ GetMetadata(Deref(clone), "k")' = turn'.message
             /\ turn'.target = "agent"
                => /\ GetMetadata(Deref(clone), "k")' = GetMetadata(Deref(clone), "k")
                   /\ GetMetadata(agent, "k")' = turn'.message]_vars

\* the original, with a history of several messages, and its clone hold
\* different values under the same metadata key
C19_Witness ==
    /\ ~IsNil(clone)
    /\ Len(agent.messages) >= 3
    /\ Len(Deref(clone).messages) <= 1
    /\ GetMetadata(agent, "k") = <<"v1">>
    /\ GetMetadata(Deref(clone), "k") = <<"v2">>

\* ----------------------------------------------------------------- C20
\* C20: after ClearHistory the history is the one system message when the
\* agent has a system prompt and is empty when it has none, whatever it held.
C20_ClearHistoryKeepsSystem ==
    turn.op = "ClearHistory"
    => agent.messages = (IF agent.systemPrompt # <<>>
                         THEN <<[Role |-> "system", Content |-> agent.systemPrompt]>>
                         ELSE <<>>)

\* a history of several messages was cleared down to the system message
C20_Witness ==
    /\ turn.op = "ClearHistory"
    /\ Len(turn.before) >= 3
    /\ Len(agent.messages) = 1

\* ----------------------------------------------------------------- C16
\* fullContent: the contents of the chunks cs, concatenated in order
RECURSIVE Contents(_)
Contents(cs) == IF cs = <<>> THEN <<>> ELSE Head(cs).Content \o Contents(Tail(cs))

\* the history after the user message of the turn was appended
WithUser == Append(turn.before, [Role |-> "user", Content |-> turn.message])

\* the output channel of the Stream call of this turn is closed
OutputClosed == turn.op = "Stream" /\ turn.err = ErrNil /\ forwarder.pc = "done"

\* C16: from the return of Stream on, the history starts with the old history
\* and the user message; once the output channel is closed, the consumer has
\* received every chunk the provider sent, in order, and if one of them had
\* done=true the history is the old history, the user message and one
\* assistant message whose content is the concatenation of the chunks up to
\* and including a done chunk.
C16_StreamAppendsOnDone ==
    /\ (turn.op = "Stream" /\ turn.err = ErrNil)
       => /\ Len(agent.messages) > Len(turn.before)
          /\ SubSeq(agent.messages, 1, Len(turn.before) + 1) = WithUser
    /\ OutputClosed
       => /\ received = producer.sent
          /\ (\E i \in 1..Len(received) : received[i].Done)
             => \E i \in 1..Len(received) :
                   /\ received[i].Done
                   /\ agent.messages =
                         Append(WithUser, [Role |-> "assistant",
                                           Content |-> Contents(SubSeq(received, 1, i))])

\* ----------------------------------------------------------------- C17
\* the stream ended abnormally: with an error chunk, or without a done chunk
Abnormal ==
    \/ \E i \in 1..Len(received) : received[i].Error # ErrNil
    \/ \A i \in 1..Len(received) : ~received[i].Done

\* C17: when Provider.Stream returns an error, Stream returns it and the
\* history is the old one and the user message; when the output channel is
\* closed after an error chunk or without any done chunk, the history is the
\* old one and the user message, with no assistant message, and an error chunk
\* is the last chunk the consumer received.
C17_AbnormalEndNoAssistant ==
    /\ (turn.op = "Stream" /\ turn.err # ErrNil)
       => (agent.messages = WithUser /\ forwarder.pc = "none")
    /\ (OutputClosed /\ Abnormal)
       => /\ agent.messages = WithUser
          /\ \A i \in 1..Len(received) : received[i].Error # ErrNil => i = Len(received)

\* ----------------------------------------------------------------- C18
\* the chunks of cs that carry no error
NonError(cs) == SelectSeq(cs, LAMBDA c : c.Error = ErrNil)

\* the client called Complete and then Stream, both succeeded, and the
\* provider has closed the chunks channel
BothDone ==
    /\ turn.op = "Stream" /\ turn.err = ErrNil
    /\ turn.reply.err = ErrNil /\ ~IsNil(turn.reply.resp)
    /\ producer.pc = "done"

\* C18: for either provider, when Complete and Stream are called against the
\* same deterministic backend and the stream has ended, the contents of the
\* non-error chunks received, concatenated in delivery order, are the
\* Content that Complete returned.
C18_StreamEqualsComplete ==
    BothDone => Contents(NonError(received)) = Deref(turn.reply.resp).Content

C18_Witness ==
    /\ BothDone
    /\ backend.style = "lastCarries"
    /\ Len(backend.pieces) = MaxPieces
    /\ Len(received) >= 2
    /\ Contents(NonError(received)) = Join(backend.pieces)

\* ----------------------------------------------------------------- C21
\* the system message of an agent with the prompt p
SystemFirst(msgs, p) ==
    /\ Len(msgs) >= 1
    /\ msgs[1] = [Role |-> "system", Content |-> p]

\* C21: for an agent created with a non-empty system prompt, whatever
\* operations were applied, the first message of the agent's history, and of
\* the history of its clone, is the system message with the configured prompt.
C21_SystemPromptFirst ==
    agent.systemPrompt # <<>>
    => /\ SystemFirst(agent.messages, agent.systemPrompt)
       /\ ~IsNil(clone) => SystemFirst(Deref(clone).messages, agent.systemPrompt)

C21_Witness ==
    /\ agent.systemPrompt # <<>>
    /\ turn.op = "ClearHistory"
    /\ Len(turn.before) = MaxHistory
    /\ \E i \in 1..Len(turn.before) : turn.before[i].Role = "assistant"
    /\ forwarder.pc = "done" /\ received # <<>>
    /\ ~IsNil(clone)

\* ----------------------------------------------------------------- C22
\* the producer goroutine of a Stream call is running
Producing == producer.pc \in {"read", "send"}

\* the producer returns, and its deferred close(chunks) runs
Closes == Producing /\ producer'.pc = "done"

\* the read of the body the producer is about to make fails
ReadFails == producer.pc = "read" /\ wire.lines = <<>> /\ wire.end # "eof"

\* C22: the one producer of a Stream call that returned a channel closes it
\* in the end when the consumer keeps receiving; it closes it without a last
\* send only at the end of the body, and otherwise right after the consumer
\* took a chunk that carries done or an error; a failed read makes it send a
\* chunk with the error set and then return.
C22_ProducerClosesAfterTerminal ==
    /\ Producing ~> producer.pc = "done"
    /\ [][ /\ (Closes /\ producer.pc = "read")
              => (wire.lines = <<>> /\ wire.end = "eof")
           /\ (Closes /\ producer.pc = "send")
              => /\ received' = Append(received, producer.chunk)
                 /\ producer.chunk.Done \/ producer.chunk.Error # ErrNil
           /\ (ReadFails /\ ProducerRead)
              => /\ producer'.pc = "send"
                 /\ producer'.chunk.Error # ErrNil
                 /\ producer'.exit ]_vars

C22_Witness ==
    /\ producer.pc = "done"
    /\ Len(received) >= 2
    /\ received[Len(received)].Error = ErrRead

\* ----------------------------------------------------------------- C23
\* C23: once the context of a Stream call in progress is canceled and the
\* consumer keeps receiving, the producer returns and the channel is closed;
\* the read that meets the cancellation yields a chunk with the error set and
\* done=false, and no chunk follows it.
C23_CancelEndsStream ==
    /\ (Producing /\ wire.end = "canceled") ~> producer.pc = "done"
    /\ [][ (ReadFails /\ wire.end = "canceled" /\ ProducerRead)
           => /\ producer'.pc = "send"
              /\ producer'.exit
              /\ producer'.chunk = Chunk(<<>>, FALSE, ErrCtx) ]_vars
    /\ [](\A i \in 1..Len(producer.sent) :
             producer.sent[i].Error = ErrCtx => i = Len(producer.sent))

C23_Witness ==
    /\ producer.pc = "done"
    /\ Len(received) >= 2
    /\ received[Len(received)].Error = ErrCtx

\* ----------------------------------------------------------------- C24
\* the producer is about to read a payload that is not valid JSON
ReadsBad == producer.pc = "read" /\ wire.lines # <<>> /\ Head(wire.lines).kind = "bad"

\* C24: in both providers, reading a payload that fails JSON decoding makes
\* the producer send a chunk with the error set and return, so that no later
\* payload of the stream is delivered.
C24_DecodeFailureEndsStream ==
    [][ (ReadsBad /\ ProducerRead)
        => /\ producer'.pc = "send"
           /\ producer'.chunk.Error # ErrNil
           /\ producer'.exit ]_vars

\* ----------------------------------------------------------------- C25
\* the backend answers with a status outside 200..299
Non2xx(b) == b.status \notin 200..299

\* the backend answers with a 2xx status and no choice or an empty message
EmptyAnswer(b) == ~Non2xx(b) /\ (b.style = "noChoices" \/ Join(b.pieces) = <<>>)

\* C25: for both providers, Complete returns an error and no response when
\* the backend answers with a non-2xx status, or with a 2xx status and zero
\* choices or an empty message; for a non-2xx status Stream returns an error,
\* no channel, and starts no producer goroutine.
C25_CompleteRejectsBadAnswers ==
    /\ (turn.op = "Complete" /\ (Non2xx(backend) \/ EmptyAnswer(backend)))
       => (turn.err # ErrNil /\ IsNil(turn.resp))
    /\ (turn.op = "Stream" /\ Non2xx(backend))
       => (turn.err # ErrNil /\ producer = NoProducer /\ wire = NoWire)

\* ----------------------------------------------------------------- C29
\* C29: TokensUsed of a Complete response is prompt_eval_count + eval_count
\* for the Ollama provider and the total_tokens field of usage for the
\* OpenAI-compatible provider, whatever prompt_tokens and completion_tokens
\* are.
C29_TokensUsed ==
    (turn.op = "Complete" /\ turn.err = ErrNil)
    => Deref(turn.resp).TokensUsed =
          IF backend.family = "ollama"
          THEN backend.usage.prompt + backend.usage.completion
          ELSE backend.usage.total

C29_Witness ==
    /\ turn.op = "Complete" /\ turn.err = ErrNil
    /\ backend.family = "openai"
    /\ backend.usage.total # backend.usage.prompt + backend.usage.completion
    /\ Deref(turn.resp).TokensUsed = backend.usage.total

\* ----------------------------------------------------------------- C27
\* the invocation entered Spawn and passed or failed the admission test
Entered(c) == pc[c] \notin {"idle", "start"}

\* the skill lookup of the invocation's task fails
LookupFails(c) ==
    /\ call[c].task.SkillName # <<>>
    /\ ~IsNil(skills)
    /\ call[c].task.SkillName \notin DOMAIN Deref(skills)

\* the invocations of the batch that called the provider
BatchCallers == {i \in 1..Len(batchCalls) : requests[batchCalls[i]] # <<>>}

\* C27: an invocation of Spawn calls Provider.Complete at most once: once when
\* it was admitted, unless the skill lookup failed first, and not at all when
\* it was rejected; so a returned batch made one call for each admitted task
\* whose skill lookup did not fail, whether the call succeeded or not.
C27_NoRetry ==
    /\ \A c \in Calls :
          /\ Len(requests[c]) <= 1
          /\ (Entered(c) /\ c \notin admitted) => requests[c] = <<>>
          /\ (Entered(c) /\ c \in admitted)
             => Len(requests[c]) = IF LookupFails(c) THEN 0 ELSE 1
    /\ batchPc = "returned"
       => BatchCallers = {i \in 1..Len(batchCalls) :
                            batchCalls[i] \in admitted /\ ~LookupFails(batchCalls[i])}

\* a batch returned after two admitted tasks called the provider, one call
\* failing
C27_Witness ==
    /\ batchPc = "returned"
    /\ Cardinality(BatchCallers) = 2
    /\ \E i, j \in BatchCallers :
          /\ completed[batchCalls[i]].err # ErrNil
          /\ completed[batchCalls[j]].err = ErrNil

\* ----------------------------------------------------------------- C28
\* the system prompt of a task's agent: the pool's, or the generic one
TaskPrompt(t) ==
    IF config.SystemPrompt # <<>> THEN config.SystemPrompt
    ELSE <<"You are a focused subagent executing task: ">> \o t.Description

\* content is the task's message, alone or at the end of a skill's framing
CarriesMessage(content, t) ==
    \/ content = t.Message
    \/ /\ t.SkillName # <<>>
       /\ Len(content) > Len(t.Message)
       /\ SubSeq(content, Len(content) - Len(t.Message) + 1, Len(content)) = t.Message
       /\ \A u \in Tasks : u # t => \A i \in 1..Len(content) : <<content[i]>> # u.Message

\* C28: the request an admitted Spawn sends to the backend holds exactly two
\* messages: the system message with the pool's system prompt, or with the
\* generic task prompt built from the task's description when the pool has
\* none, and then the user message of this task; no message of another task.
C28_FreshAgentPerTask ==
    \A c \in Calls : \A i \in 1..Len(requests[c]) :
       LET msgs == requests[c][i].Messages
           t == call[c].task
       IN /\ Len(msgs) = 2
          /\ msgs[1] = [Role |-> "system", Content |-> TaskPrompt(t)]
          /\ msgs[2].Role = "user"
          /\ CarriesMessage(msgs[2].Content, t)

\* two tasks of a pool with no system prompt have been sent to the backend,
\* the second after the first was answered
C28_Witness ==
    /\ config.SystemPrompt = <<>>
    /\ \E c, d \in Calls :
          /\ call[c].task # call[d].task
          /\ BackendSucceeded(c)
          /\ Len(messages[c]) = 3
          /\ requests[d] # <<>>
          /\ call[d].task.SkillName # <<>>

\* ----------------------------------------------------------------- C30
\* the last operation was a turn that handed a request to the provider
SentRequest == turn.op \in {"Run", "RunWithSkill", "Stream"} /\ ~IsNil(turn.req)

\* C30: the request Run and Stream hand to the provider has the agent's
\* model and, in order, the whole history the agent had, system message first
\* when there is a system prompt, then the new user message; its streaming
\* flag is set by Stream and not by Run.
C30_RequestCarriesHistory ==
    SentRequest
    => LET req == Deref(turn.req)
       IN /\ req.Model = agent.model
          /\ req.Messages = Append(turn.before, [Role |-> "user", Content |-> turn.message])
          /\ agent.systemPrompt # <<>>
             => req.Messages[1] = [Role |-> "system", Content |-> agent.systemPrompt]
          /\ req.Stream = (turn.op = "Stream")

C30_Witness ==
    /\ SentRequest
    /\ turn.op = "Stream"
    /\ agent.systemPrompt # <<>>
    /\ Len(Deref(turn.req).Messages) = MaxHistory - 1
    /\ \E i \in 1..Len(turn.before) : turn.before[i].Role = "assistant"

\* ----------------------------------------------------------------- C26
\* spec is name, a '/', and model, where name has no '/'
SplitsAs(spec, name, model) ==
    /\ spec = name \o <<"/">> \o model
    /\ \A i \in 1..Len(name) : name[i] # "/"

\* C26: ResolveModel returns ok with a provider and a model exactly when the
\* spec is the name of a registered provider, free of '/', then a '/', then
\* the model, which may hold further '/'; it then returns that provider and
\* that whole remainder. Otherwise (no '/', or the part before the first '/'
\* names no registered provider) it returns not-ok, no provider and an empty
\* model.
C26_ResolveModelSplitsAtFirstSlash ==
    turn.op = "ResolveModel"
    => LET out == Deref(turn.resp)
           spec == turn.message
       IN IF \E name \in registry : \E k \in 0..Len(spec) :
                SplitsAs(spec, name, SubSeq(spec, k + 1, Len(spec)))
          THEN /\ out.ok
               /\ ~IsNil(out.provider)
               /\ Deref(out.provider) \in registry
               /\ SplitsAs(spec, Deref(out.provider), out.model)
          ELSE out = [provider |-> Nil, model |-> <<>>, ok |-> FALSE]

\* a spec with two '/' resolved while a provider whose name runs up to the
\* second one is registered as well
C26_Witness ==
    /\ turn.op = "ResolveModel"
    /\ turn.message = <<"a", "/", "b", "/">>
    /\ <<"a", "/", "b">> \in registry
    /\ Deref(turn.resp).ok
    /\ Deref(turn.resp).model = <<"b", "/">>

\* ----------------------------------------------------------------- C31
\* C31: in a provider stream a chunk with done=true is the last one
\* delivered, so there is at most one, and once it is delivered the producer
\* has returned and the channel is closed.
C31_DoneIsTerminal ==
    \A i \in 1..Len(producer.sent) :
       producer.sent[i].Done => (i = Len(producer.sent) /\ producer.pc = "done")

\* ----------------------------------------------------------------- C32
\* the chunks delivered that carry an error
ErrorChunks == {i \in 1..Len(producer.sent) : producer.sent[i].Error # ErrNil}

\* C32: the producer of the NDJSON stream returns without sending when it
\* reaches the end of the input, so that the channel is closed with no error
\* chunk and, when no object had done=true, no done chunk; on any other
\* failure of a decode it sends a chunk with the error set and returns, so
\* that a stream has at most one error chunk, its last; an object with
\* done=true is sent as a chunk with done=true, after which the producer
\* returns and the objects that follow are not read.
C32_NDJSONTermination ==
    /\ [][ ProducerRead
           => /\ (wire.lines = <<>> /\ wire.end = "eof")
                 => (producer'.pc = "done" /\ producer'.sent = producer.sent)
              /\ (\/ (wire.lines = <<>> /\ wire.end # "eof")
                  \/ (wire.lines # <<>> /\ Head(wire.lines).kind = "bad"))
                 => /\ producer'.pc = "send" /\ producer'.exit
                    /\ producer'.chunk.Error # ErrNil
                    /\ ~producer'.chunk.Done
              /\ (wire.lines # <<>> /\ Head(wire.lines).kind = "obj" /\ Head(wire.lines).done)
                 => /\ producer'.pc = "send" /\ producer'.exit
                    /\ producer'.chunk = Chunk(Head(wire.lines).content, TRUE, ErrNil)
                    /\ wire'.lines = <<>> ]_vars
    /\ [](/\ Cardinality(ErrorChunks) <= 1
          /\ \A i \in ErrorChunks : i = Len(producer.sent) /\ producer.pc = "done"
          /\ \A i \in 1..Len(producer.sent) :
                producer.sent[i].Done => (i = Len(producer.sent) /\ producer.pc = "done"))

\* the chunk of a done object was the only one delivered, and the stream is
\* over
C32_Witness ==
    /\ producer.pc = "done"
    /\ Len(producer.sent) = 1
    /\ producer.sent[1].Done
    /\ received = producer.sent
    /\ turn.op = "Stream" /\ turn.err = ErrNil

\* ----------------------------------------------------------------- C33
\* C33: the producer of the SSE stream sends no chunk for a line that does
\* not start with "data: " and reads on; for the line data: [DONE] it sends
\* a chunk with done=true and no content and returns, so that the channel is
\* closed and no further line is processed.
C33_SSELines ==
    [][ (ProducerRead /\ wire.lines # <<>>)
        => /\ Head(wire.lines).kind = "comment"
              => /\ producer' = producer
                 /\ wire' = [wire EXCEPT !.lines = Tail(wire.lines)]
           /\ Head(wire.lines).kind = "[DONE]"
              => /\ producer'.pc = "send" /\ producer'.exit
                 /\ producer'.chunk = Chunk(<<>>, TRUE, ErrNil)
                 /\ wire'.lines = <<>> ]_vars

\* a chunk was delivered after a comment line, then the chunk of [DONE], and
\* the stream is over
C33_Witness ==
    /\ producer.pc = "done"
    /\ Len(producer.sent) = 2
    /\ producer.sent[1] = Chunk(<<"x">>, FALSE, ErrNil)
    /\ producer.sent[2] = Chunk(<<>>, TRUE, ErrNil)
    /\ received = producer.sent

\* ----------------------------------------------------------------- C34
\* a is a prefix of b
IsPrefix(a, b) == Len(a) <= Len(b) /\ SubSeq(b, 1, Len(a)) = a

\* C34: every step of AddMessage, Run, RunWithSkill and Stream (its goroutine
\* included) keeps the history it finds as a prefix of the history it leaves:
\* messages are only added at the end, in the order they are appended; only
\* ClearHistory does otherwise.
C34_HistoryAppendOnly ==
    [][ ~AgentClearHistory => IsPrefix(agent.messages, agent'.messages) ]_vars

\* a full history built by a stream's goroutine on top of earlier messages
C34_Witness ==
    /\ Len(agent.messages) = MaxHistory
    /\ turn.op = "Stream"
    /\ Len(turn.before) >= 2
    /\ agent.messages[MaxHistory].Role = "assistant"
    /\ forwarder.pc = "done"

\* ----------------------------------------------------------------- C35
\* C35: one Stream call appends, after the user message, at most one
\* assistant message, whatever chunks the provider delivers; once its output
\* channel is closed after a done chunk, the history has grown by exactly the
\* user and the assistant message.
C35_StreamOneAssistant ==
    turn.op = "Stream"
    => /\ Len(agent.messages) <= Len(turn.before) + 2
       /\ (OutputClosed /\ \E i \in 1..Len(received) : received[i].Done)
          => Len(agent.messages) = Len(turn.before) + 2

\* ----------------------------------------------------------------- C36
\* C36: once the consumer of Stream has received a chunk with done=true, the
\* assistant message of the turn is in the history, after the user message.
C36_AssistantBeforeDoneSeen ==
    (turn.op = "Stream" /\ \E i \in 1..Len(received) : received[i].Done)
    => /\ Len(agent.messages) >= Len(turn.before) + 2
       /\ agent.messages[Len(turn.before) + 2].Role = "assistant"

\* ----------------------------------------------------------------- C37
\* the Result found under the id of invocation c's task was stored by c or by
\* another invocation for the same id
ResultKept(c) ==
    LET g == GetResult(call[c].task.ID)
    IN /\ g.ok
       /\ \E d \in admitted :
             /\ call[d].task.ID = call[c].task.ID
             /\ Stored(d)
             /\ g.result = result[d]

C38_StoredBeforeRelease ==
    \A c \in admitted : ~InFlight(c) => ResultKept(c)

\* a Spawn has released its slot while its Result is still the one found,
\* and another is in flight
C38_Witness ==
    \E c, d \in admitted :
       /\ Returned(c)
       /\ GetResult(call[c].task.ID).result = result[c]
       /\ Deref(result[c]).Error # ErrNil
       /\ pc[d] = "inflight"
       /\ activeCount = 1

\* ----------------------------------------------------------------- C39
\* C39: ClearResults leaves an empty results map, for which Stats reports 0
\* stored results, and changes neither the active count, nor the maximum,
\* nor any invocation in flight; a Spawn that stores afterwards still puts
\* its Result in the map, so that Stats reports at least one again.
C39_ClearResultsFrame ==
    [][ /\ ClearResults
           => /\ results' = EmptyMap
              /\ Stats'.Results = 0
              /\ Stats'.Active = Stats.Active
              /\ Stats'.MaxAgents = Stats.MaxAgents
              /\ pc' = pc /\ admitted' = admitted /\ cancelled' = cancelled
              /\ completed' = completed /\ ret' = ret
        /\ \A c \in Calls :
              Stores(c) => (GetResult(call[c].task.ID)'.ok /\ Stats'.Results >= 1) ]_vars

\* the Result of a returned Spawn was cleared, and a Spawn that was in flight
\* then has stored its own
C39_Witness ==
    \E c, d \in admitted :
       /\ Returned(c)
       /\ ~GetResult(call[c].task.ID).ok
       /\ Stored(d)
       /\ GetResult(call[d].task.ID).result = result[d]
       /\ Stats.Results = 1

\* ----------------------------------------------------------------- C40
\* C40: once the context of a stream is canceled, the producer goroutine of
\* the provider returns and closes its channel, even when the consumer has
\* stopped receiving.
C40_NoGoroutineLeft ==
    (Producing /\ wire.end = "canceled") ~> (producer.pc = "done")

====
